---- MODULE Spec2Model ----
(***************************************************************************)
(* Water-balance computation of src/app/api/water-balance/route.ts (the    *)
(* Earth Engine handler, lines 156-421): the GET handler, its upstream     *)
(* fetches, and the pure helpers calculateDeltaS and                       *)
(* calculateWaterBalance.                                                  *)
(* Further down: the page, the crop-growth, VPD and yield-stress models,    *)
(* the proxying route, Earth Engine initialisation, ApiClient, the token   *)
(* and config caches, createUser, and the two LoRa sketches.               *)
(*                                                                         *)
(* Numbers are fixed point.  Dates are day numbers: the code's dates are   *)
(* "YYYY-MM-dd" strings of one width, on which localeCompare and === order *)
(* and equate exactly as the day numbers do.  NDVI is in hundredths, Kc in *)
(* 1/600ths, so that (ndvi - 0.2) / (0.8 - 0.2) is an exact integer.       *)
(***************************************************************************)
EXTENDS Integers, Sequences, FiniteSets, TLC

VARIABLES
    pc,            \* position of the running call
    range,         \* <<startDate, endDate>> of the request (route.ts:221-223)
    eeInitialized, \* module-level flag (route.ts:160)
    ndvi,          \* ndviTimeSeries   (route.ts:253)
    rainfall,      \* rainfallTimeSeries (route.ts:254) / data.rainfall
    et,            \* etTimeSeries     (route.ts:255) / data.et
    soilMoisture,  \* sensorData.soilMoisture (route.ts:357)
    irrigation,    \* sensorData.irrigation (route.ts:363) / data.irrigation
    deltaS,        \* deltaSValues     (route.ts:270) / data.deltaS
    kc,            \* kcValues         (route.ts:260)
    waterBalance,  \* waterBalance     (route.ts:273)
    errors,        \* upstream sources whose fetch errored in this request
    status,        \* HTTP status of the response, 0 while there is none
    currentBalance,\* the page's currentBalance (page.tsx:469)
    calls,         \* the helper calls made so far: function, arguments, result
    reqs,          \* the requests in flight when two GETs overlap
    growth,        \* working state of the crop-growth model of one process
    cropGrowth,    \* data.cropGrowth (page.tsx:330-337)
    yieldStress,   \* data.yieldStress (page.tsx:346-352)
    vpdAnalysis,   \* data.vpdAnalysis (page.tsx:338-345)
    proxy,         \* the proxying GET of route.ts:19-92
    gee,           \* Earth Engine initialisation of one process
    apiClient,     \* one ApiClient.fetchWithFallback call (lib/api.ts)
    tokenCache,    \* cachedToken and the clock (satellite/route.ts:7)
    users,         \* the users collection and the createUser calls on it
    bridge,        \* the LoRa bridge (lora_bridge.ino)
    configCache,   \* cachedConfig and the loadConfig calls
    transmitter    \* the LoRa transmitter (lora_transmitter.ino)

\* The other programs of the repository.
procs == <<vpdAnalysis, proxy, gee, apiClient, tokenCache, users, bridge,
           configCache, transmitter>>

\* State outside the single water-balance call.
ext == <<currentBalance, calls, reqs, growth, cropGrowth, yieldStress, procs>>

vars == <<pc, range, eeInitialized, ndvi, rainfall, et, soilMoisture,
          irrigation, deltaS, kc, waterBalance, errors, status, ext>>

\* Every other program as it is when its process starts.
ProcsInit ==
    /\ vpdAnalysis = <<>>
    /\ proxy = [stage |-> "idle", lat |-> "", lng |-> "", waited |-> 0,
                responses |-> <<>>]
    /\ gee = [m \in {"gee", "water-balance"} |->
                [eeInitialized |-> FALSE,
                 stage |-> [r \in {1, 2} |-> "new"],
                 started |-> 0,
                 reported |-> FALSE]]
    /\ apiClient = [stage |-> "idle", apiType |-> "sensor", attempts |-> <<>>,
                    primary |-> "", done |-> <<>>]
    /\ tokenCache = [now |-> 0, stage |-> "idle",
                     cachedToken |-> [present |-> FALSE, token |-> 0,
                                      expiresAt |-> 0],
                     requests |-> 0,
                     last |-> [kind |-> "none"]]
    /\ users = [collection |-> <<>>,
                call |-> [c \in {1, 2} |->
                             [stage |-> "idle", email |-> "", result |-> ""]]]
    /\ bridge = [s \in {"lora_bridge.ino", "part_001"} |->
                   [packetsReceived |-> 0, packetsForwarded |-> 0,
                    packetsFailed |-> 0,
                    last |-> [packet |-> "none", wifi |-> TRUE, httpCode |-> 0]]]
    /\ configCache = [cachedConfig |-> "", since |-> "", fetches |-> 0,
                      call |-> [c \in {1, 2} |->
                                   [stage |-> "idle",
                                    last |-> [source |-> "none"]]]]
    /\ transmitter = [transmissionCount |-> 0, failedReadings |-> 0, cycles |-> 0,
                      last |-> [reads |-> 0]]

ExtInit ==
    /\ currentBalance = 0
    /\ calls = <<>>
    /\ reqs = <<>>
    /\ growth = <<>>
    /\ cropGrowth = <<>>
    /\ yieldStress = <<>>
    /\ ProcsInit

----------------------------------------------------------------------------
(* Bounds of the model *)

MaxDate == 3      \* days are 1..MaxDate
MaxVal == 1       \* sample magnitudes are 0..MaxVal
MaxPoints == 2    \* samples delivered to one call, all sources together
MaxNdviLen == 2   \* length of the NDVI series given to the Kc estimator alone
MaxWbPoints == 3  \* samples given to calculateWaterBalance alone, all series together
MaxSoilLen == 3   \* length of the series given to calculateDeltaS alone
ScenarioDays == 5 \* days of the bare-soil request
MaxCalls == 3     \* helper calls made one after the other
GrowthDays == 10  \* dates of one crop-growth pass
MaxRuns == 2      \* invocations after the first
GridSteps == 4    \* steps of the stress-factor grid between 0 and 1
MaxStressDays == 2 \* dates of one yield-stress pass
MaxVpdDays == 2   \* dates of one VPD analysis
MaxProxyRequests == 2 \* GETs served one after the other
MaxApiCalls == 2  \* fetchWithFallback calls made one after the other
MaxTicks == 13    \* how far the clock of the token cache runs
MaxTokenRequests == 3 \* requests to the token endpoint
MaxPackets == 2   \* LoRa packets a bridge receives
MaxConfigFetches == 3 \* requests of /api/config
MaxCycles == 2    \* transmission cycles of the transmitter

Dates == 1..MaxDate
Values == 0..MaxVal
Hours == {8, 9}
\* JSON null or a missing property: a token that is no sample value.
Null == 0 - 9999
RawValues == Values \cup {Null}

\* NDVI samples in hundredths: below ndviMin, at it, inside the band, at
\* ndviMax, above it, and outside [-1, 1].
NdviSamples == {-150, -100, 0, 20, 50, 80, 92, 100, 150}

----------------------------------------------------------------------------
(* Values and series *)

Point(d, v) == [date |-> d, value |-> v]

SeqsUpTo(S, n) == UNION {[1..k -> S] : k \in 0..n}

Series(vals, n) == SeqsUpTo([date : Dates, value : vals], n)

\* JavaScript `x || 0` on a number or null: null, undefined, NaN and 0 give 0.
OrZero(v) == IF v = Null THEN 0 ELSE v

Min(a, b) == IF a < b THEN a ELSE b
Max(a, b) == IF a > b THEN a ELSE b

----------------------------------------------------------------------------
(* Crop coefficient from NDVI (route.ts:257-264) *)

ndviMin == 20     \* 0.2 in hundredths
ndviMax == 80     \* 0.8 in hundredths
KcCap == 720      \* 1.2 in 1/600ths
KcUnit == 6 * 100 \* 1.0 in 1/600ths per 1.0 of NDVI ratio

\* Math.max(0, Math.min(1.2, (ndvi - ndviMin) / (ndviMax - ndviMin)))
KcOf_NoUpperClamp(v) ==
    Max(0, (KcUnit * (v - ndviMin)) \div (ndviMax - ndviMin))

KcOf_Unshifted(v) ==
    Max(0, Min(KcCap, (KcUnit * v) \div (ndviMax - ndviMin)))

KcOf(v) ==
    Max(0, Min(KcCap, (KcUnit * (v - ndviMin)) \div (ndviMax - ndviMin)))

\* ndviTimeSeries.map(item => ({date: item.date, value: kc}))
kcValues(series) ==
    [k \in 1..Len(series) |-> Point(series[k].date, KcOf(series[k].value))]

----------------------------------------------------------------------------
(* calculateDeltaS (route.ts:379-390) *)

\* The loop body at JavaScript index i - 1 (sequences here start at 1).
RECURSIVE DeltaSLoop(_, _, _)
DeltaSLoop(soilMoistureData, i, acc) ==
    IF i > Len(soilMoistureData)
    THEN acc
    ELSE DeltaSLoop(soilMoistureData, i + 1,
             Append(acc, Point(soilMoistureData[i].date,
                               soilMoistureData[i].value
                                   - soilMoistureData[i - 1].value)))

calculateDeltaS_ZeroFill(soilMoistureData) ==
    IF Len(soilMoistureData) = 0
    THEN <<>>
    ELSE <<Point(soilMoistureData[1].date, 0)>> \o DeltaSLoop(soilMoistureData, 2, <<>>)

calculateDeltaS_PrevDate(soilMoistureData) ==
    [k \in 1..Max(0, Len(soilMoistureData) - 1) |->
        Point(soilMoistureData[k].date,
              soilMoistureData[k + 1].value - soilMoistureData[k].value)]

\* `const deltaS = []` hoisted out of the function: the array outlives the call.
calculateDeltaS_ModuleLevel(soilMoistureData) ==
    DeltaSLoop(soilMoistureData, 2, deltaS)

calculateDeltaS(soilMoistureData) == DeltaSLoop(soilMoistureData, 2, <<>>)

----------------------------------------------------------------------------
(* calculateWaterBalance (route.ts:392-421) *)

DatesOf(series) == [k \in 1..Len(series) |-> series[k].date]

\* new Set([...]) followed by Array.from: first occurrences, insertion order.
RECURSIVE SetOrder(_, _)
SetOrder(seq, acc) ==
    IF seq = <<>>
    THEN acc
    ELSE SetOrder(Tail(seq),
                  IF \E k \in 1..Len(acc) : acc[k] = Head(seq)
                  THEN acc
                  ELSE Append(acc, Head(seq)))

\* series.find(d => d.date === date)?.value : the first match, else undefined.
FindValue_Last(series, date) ==
    LET idx == {k \in 1..Len(series) : series[k].date = date}
    IN  IF idx = {} THEN Null
        ELSE series[CHOOSE k \in idx : \A j \in idx : j <= k].value

FindValue(series, date) ==
    LET idx == {k \in 1..Len(series) : series[k].date = date}
    IN  IF idx = {} THEN Null
        ELSE series[CHOOSE k \in idx : \A j \in idx : k <= j].value

BalanceRecord_PlusDs(data, date) ==
    LET p == OrZero(FindValue(data.rainfall, date))
        i == OrZero(FindValue(data.irrigation, date))
        ds == OrZero(FindValue(data.deltaS, date))
        etValue == OrZero(FindValue(data.et, date))
    IN  [date |-> date,
         value |-> p + i - etValue + ds,
         components |-> [p |-> p, i |-> i, ds |-> ds, et |-> etValue]]

\* The body of the map callback, lines 403-418.
BalanceRecord(data, date) ==
    LET p == OrZero(FindValue(data.rainfall, date))
        i == OrZero(FindValue(data.irrigation, date))
        ds == OrZero(FindValue(data.deltaS, date))
        etValue == OrZero(FindValue(data.et, date))
        waterBalanceValue == p + i - etValue - ds
    IN  [date |-> date,
         value |-> waterBalanceValue,
         components |-> [p |-> p, i |-> i, ds |-> ds, et |-> etValue]]

\* balance.sort((a, b) => a.date.localeCompare(b.date)) : a stable insertion
\* of each record after the records whose date is not later.
RECURSIVE InsertByDate(_, _)
InsertByDate(sorted, rec) ==
    IF sorted = <<>>
    THEN <<rec>>
    ELSE IF rec.date < Head(sorted).date
         THEN <<rec>> \o sorted
         ELSE <<Head(sorted)>> \o InsertByDate(Tail(sorted), rec)

RECURSIVE SortLoop(_, _)
SortLoop(seq, acc) ==
    IF seq = <<>> THEN acc ELSE SortLoop(Tail(seq), InsertByDate(acc, Head(seq)))

SortByDate(seq) == SortLoop(seq, <<>>)

UnionDates(data) ==
    SetOrder(DatesOf(data.rainfall) \o DatesOf(data.irrigation)
                 \o DatesOf(data.deltaS) \o DatesOf(data.et), <<>>)

calculateWaterBalance_NoSet(data) ==
    LET dates == DatesOf(data.rainfall) \o DatesOf(data.irrigation)
                     \o DatesOf(data.deltaS) \o DatesOf(data.et)
    IN  SortByDate([k \in 1..Len(dates) |-> BalanceRecord(data, dates[k])])

calculateWaterBalance_DefaultRow(data) ==
    LET dates == UnionDates(data)
    IN  IF dates = <<>>
        THEN <<BalanceRecord(data, 1)>>
        ELSE SortByDate([k \in 1..Len(dates) |-> BalanceRecord(data, dates[k])])

calculateWaterBalance(data) ==
    LET dates == UnionDates(data)
        balance == [k \in 1..Len(dates) |-> BalanceRecord(data, dates[k])]
    IN  SortByDate(balance)

----------------------------------------------------------------------------
(* Upstream data *)

\* getTimeSeries (route.ts:326-337): features.map(f => ({date, value: value || 0}))
getTimeSeries(features) ==
    [k \in 1..Len(features) |-> Point(features[k].date, OrZero(features[k].value))]

\* reading.timestamp.split("T")[0] of a timestamp <<day, hour>>
DateOfTimestamp(timestamp) == timestamp[1]

\* fetchSensorData, lines 357-368: the two maps over the response body.
SensorSeries(body) ==
    [soilMoisture |->
        [k \in 1..Len(body) |->
            Point(DateOfTimestamp(body[k].timestamp), OrZero(body[k].soil_moisture))],
     irrigation |->
        [k \in 1..Len(body) |-> Point(DateOfTimestamp(body[k].timestamp), 0)]]

\* fetchSensorData, lines 369-376: the catch branch.
SensorFallback == [soilMoisture |-> <<>>, irrigation |-> <<>>]

\* filterDate(startDate, endDate): start inclusive, end exclusive.
InRange(d) == range[1] <= d /\ d < range[2]

Features(vals, n) ==
    SeqsUpTo([date : {d \in Dates : InRange(d)}, value : vals], n)

SensorBodies(n) ==
    SeqsUpTo([timestamp : Dates \X Hours, soil_moisture : RawValues], n)

\* Samples this call may still receive.
Budget == MaxPoints - (Len(ndvi) + Len(rainfall) + Len(et))

NoSeries ==
    /\ ndvi = <<>> /\ rainfall = <<>> /\ et = <<>>
    /\ soilMoisture = <<>> /\ irrigation = <<>> /\ deltaS = <<>>
    /\ kc = <<>> /\ waterBalance = <<>>

Locals == <<ndvi, rainfall, et, soilMoisture, irrigation, deltaS, kc, waterBalance>>

----------------------------------------------------------------------------
(* The GET handler (route.ts:216-307) *)

Init ==
    /\ pc = "idle"
    /\ range = <<1, 1>>
    /\ eeInitialized = FALSE
    /\ NoSeries
    /\ errors = {}
    /\ status = 0
    /\ ExtInit

\* Lines 218-223: the request's date range.
GET ==
    /\ pc = "idle"
    /\ \E startDate \in Dates, endDate \in Dates :
          /\ startDate <= endDate
          /\ range' = <<startDate, endDate>>
    /\ pc' = "initEE"
    /\ UNCHANGED <<eeInitialized, Locals, errors, status>>
    /\ UNCHANGED ext

\* The catch of GET, lines 297-306.
Respond500(source) ==
    /\ errors' = errors \cup {source}
    /\ status' = 500
    /\ pc' = "done"

\* initializeEE (lines 162-214) resolving: already initialized, or the
\* ee.initialize success callback sets the flag.
InitializeEE ==
    /\ pc = "initEE"
    /\ eeInitialized' = TRUE
    /\ pc' = "ndvi"
    /\ UNCHANGED <<range, Locals, errors, status>>
    /\ UNCHANGED ext

\* initializeEE throwing or rejecting (missing credentials, reject callbacks).
InitializeEEFails ==
    /\ pc = "initEE"
    /\ ~eeInitialized
    /\ Respond500("ee")
    /\ UNCHANGED <<range, eeInitialized, Locals>>
    /\ UNCHANGED ext

\* Line 253.
GetNdvi ==
    /\ pc = "ndvi"
    /\ \E features \in Features(NdviSamples \cup {Null}, Budget) :
          ndvi' = getTimeSeries(features)
    /\ pc' = "rainfall"
    /\ UNCHANGED <<range, eeInitialized, rainfall, et, soilMoisture, irrigation,
                   deltaS, kc, waterBalance, errors, status>>
    /\ UNCHANGED ext

GetNdviFails ==
    /\ pc = "ndvi"
    /\ Respond500("ndvi")
    /\ UNCHANGED <<range, eeInitialized, Locals>>
    /\ UNCHANGED ext

\* Line 254.
GetRainfall ==
    /\ pc = "rainfall"
    /\ \E features \in Features(RawValues, Budget) :
          rainfall' = getTimeSeries(features)
    /\ pc' = "et"
    /\ UNCHANGED <<range, eeInitialized, ndvi, et, soilMoisture, irrigation,
                   deltaS, kc, waterBalance, errors, status>>
    /\ UNCHANGED ext

GetRainfallFails ==
    /\ pc = "rainfall"
    /\ Respond500("rainfall")
    /\ UNCHANGED <<range, eeInitialized, Locals>>
    /\ UNCHANGED ext

\* Lines 255-264: the ET series, then the Kc series up to the next await.
GetEt ==
    /\ pc = "et"
    /\ \E features \in Features(RawValues, Budget) :
          et' = getTimeSeries(features)
    /\ kc' = kcValues(ndvi)
    /\ pc' = "sensor"
    /\ UNCHANGED <<range, eeInitialized, ndvi, rainfall, soilMoisture, irrigation,
                   deltaS, waterBalance, errors, status>>
    /\ UNCHANGED ext

GetEtFails ==
    /\ pc = "et"
    /\ Respond500("et")
    /\ UNCHANGED <<range, eeInitialized, Locals>>
    /\ UNCHANGED ext

\* Lines 270-296: everything after fetchSensorData returned `sensorData`.
Compute(sensorData) ==
    /\ soilMoisture' = sensorData.soilMoisture
    /\ irrigation' = sensorData.irrigation
    /\ deltaS' = calculateDeltaS(sensorData.soilMoisture)
    /\ waterBalance' =
          calculateWaterBalance([rainfall |-> rainfall,
                                 irrigation |-> sensorData.irrigation,
                                 deltaS |-> calculateDeltaS(sensorData.soilMoisture),
                                 et |-> et])
    /\ status' = 200
    /\ pc' = "done"

\* Line 267 with fetchSensorData's try branch.
FetchSensorData ==
    /\ pc = "sensor"
    /\ \E body \in SensorBodies(Budget) : Compute(SensorSeries(body))
    /\ UNCHANGED <<range, eeInitialized, ndvi, rainfall, et, kc, errors>>
    /\ UNCHANGED ext

\* Line 267 with fetchSensorData's catch branch: network error, the 5 s
\* timeout, a non-OK status or a malformed body.
FetchSensorDataFails ==
    /\ pc = "sensor"
    /\ Compute(SensorFallback)
    /\ errors' = errors \cup {"sensor"}
    /\ UNCHANGED <<range, eeInitialized, ndvi, rainfall, et, kc>>
    /\ UNCHANGED ext

\* The response is sent; the next request starts with fresh locals.
NextRequest ==
    /\ pc = "done"
    /\ pc' = "idle"
    /\ range' = <<1, 1>>
    /\ ndvi' = <<>> /\ rainfall' = <<>> /\ et' = <<>>
    /\ soilMoisture' = <<>> /\ irrigation' = <<>> /\ deltaS' = <<>>
    /\ kc' = <<>> /\ waterBalance' = <<>>
    /\ errors' = {}
    /\ status' = 0
    /\ UNCHANGED eeInitialized
    /\ UNCHANGED ext

Next ==
    \/ GET
    \/ InitializeEE
    \/ InitializeEEFails
    \/ GetNdvi
    \/ GetNdviFails
    \/ GetRainfall
    \/ GetRainfallFails
    \/ GetEt
    \/ GetEtFails
    \/ FetchSensorData
    \/ FetchSensorDataFails
    \/ NextRequest

Spec == Init /\ [][Next]_vars

----------------------------------------------------------------------------
(* The pure helpers called on their own, on any input series *)

\* calculateWaterBalance applied to four arbitrary series.
InitWB ==
    /\ pc = "wb_call"
    /\ range = <<1, 1>>
    /\ eeInitialized = FALSE
    /\ rainfall \in Series(Values, MaxWbPoints)
    /\ irrigation \in Series(Values, MaxWbPoints - Len(rainfall))
    /\ deltaS \in Series(Values, MaxWbPoints - Len(rainfall) - Len(irrigation))
    /\ et \in Series(Values,
                     MaxWbPoints - Len(rainfall) - Len(irrigation) - Len(deltaS))
    /\ ndvi = <<>> /\ soilMoisture = <<>> /\ kc = <<>> /\ waterBalance = <<>>
    /\ errors = {}
    /\ status = 0
    /\ ExtInit

CallCalculateWaterBalance ==
    /\ pc = "wb_call"
    /\ waterBalance' = calculateWaterBalance([rainfall |-> rainfall,
                                              irrigation |-> irrigation,
                                              deltaS |-> deltaS,
                                              et |-> et])
    /\ pc' = "wb_ret"
    /\ UNCHANGED <<range, eeInitialized, ndvi, rainfall, et, soilMoisture,
                   irrigation, deltaS, kc, errors, status>>
    /\ UNCHANGED ext

SpecWB == InitWB /\ [][CallCalculateWaterBalance]_vars

\* calculateDeltaS applied to an arbitrary soil-moisture series.
InitDeltaS ==
    /\ pc = "ds_call"
    /\ range = <<1, 1>>
    /\ eeInitialized = FALSE
    /\ soilMoisture \in Series(Values, MaxSoilLen)
    /\ ndvi = <<>> /\ rainfall = <<>> /\ et = <<>> /\ irrigation = <<>>
    /\ deltaS = <<>> /\ kc = <<>> /\ waterBalance = <<>>
    /\ errors = {}
    /\ status = 0
    /\ ExtInit

CallCalculateDeltaS ==
    /\ pc = "ds_call"
    /\ deltaS' = calculateDeltaS(soilMoisture)
    /\ pc' = "ds_ret"
    /\ UNCHANGED <<range, eeInitialized, ndvi, rainfall, et, soilMoisture,
                   irrigation, kc, waterBalance, errors, status>>
    /\ UNCHANGED ext

SpecDeltaS == InitDeltaS /\ [][CallCalculateDeltaS]_vars

\* The Kc map of lines 260-264 applied to an arbitrary NDVI series.
InitKc ==
    /\ pc = "kc_call"
    /\ range = <<1, 1>>
    /\ eeInitialized = FALSE
    /\ ndvi \in Series(NdviSamples, MaxNdviLen)
    /\ rainfall = <<>> /\ et = <<>> /\ soilMoisture = <<>> /\ irrigation = <<>>
    /\ deltaS = <<>> /\ kc = <<>> /\ waterBalance = <<>>
    /\ errors = {}
    /\ status = 0
    /\ ExtInit

CallKcValues ==
    /\ pc = "kc_call"
    /\ kc' = kcValues(ndvi)
    /\ pc' = "kc_ret"
    /\ UNCHANGED <<range, eeInitialized, ndvi, rainfall, et, soilMoisture,
                   irrigation, deltaS, waterBalance, errors, status>>
    /\ UNCHANGED ext

SpecKc == InitKc /\ [][CallKcValues]_vars

----------------------------------------------------------------------------
(* Properties *)

DateSet(series) == {series[k].date : k \in 1..Len(series)}

StrictlyIncreasing(series) ==
    \A k \in 1..(Len(series) - 1) : series[k].date < series[k + 1].date

InputDates == DateSet(rainfall) \cup DateSet(irrigation) \cup DateSet(deltaS) \cup DateSet(et)

\* The component `c` of a record dated `date` is the first sample of `series`
\* for that date, or the default 0 when the series has no sample for it.
SampleOrDefault(series, date, c) ==
    IF date \in DateSet(series)
    THEN \E k \in 1..Len(series) :
            /\ series[k].date = date
            /\ \A j \in 1..(k - 1) : series[j].date # date
            /\ c = series[k].value
    ELSE c = 0

\* C1: every record returned by calculateWaterBalance satisfies
\* value = components.p + components.i - components.et - components.ds.
Thm_C1_BalanceIdentity ==
    pc = "wb_ret" =>
        \A k \in 1..Len(waterBalance) :
            waterBalance[k].value =
                waterBalance[k].components.p + waterBalance[k].components.i
                    - waterBalance[k].components.et - waterBalance[k].components.ds

Wit_C1_BalanceIdentity ==
    /\ pc = "wb_ret"
    /\ \E k \in 1..Len(waterBalance) :
          /\ waterBalance[k].components.p > 0
          /\ waterBalance[k].components.et > 0
          /\ waterBalance[k].components.ds > 0

\* C2: the record dates of calculateWaterBalance are exactly the union of the
\* dates of the four input series, one record per distinct date, in strictly
\* ascending date order.
Thm_C2_UnionSorted ==
    pc = "wb_ret" =>
        /\ DateSet(waterBalance) = InputDates
        /\ Len(waterBalance) = Cardinality(InputDates)
        /\ StrictlyIncreasing(waterBalance)

\* A date twice inside one series and again in another, given latest first.
Wit_C2_UnionSorted ==
    /\ pc = "wb_ret"
    /\ Len(rainfall) = 2 /\ rainfall[1].date = rainfall[2].date
    /\ Len(et) = 1 /\ et[1].date < rainfall[1].date
    /\ Len(waterBalance) = 2

\* C3: in every record each component (p, i, et, ds) is its series' sample for
\* the record's date (the first one when the series has several), and the
\* default 0 when the series has no sample for that date.
Thm_C3_SampleOrDefault ==
    pc = "wb_ret" =>
        \A k \in 1..Len(waterBalance) :
            LET r == waterBalance[k]
            IN  /\ SampleOrDefault(rainfall, r.date, r.components.p)
                /\ SampleOrDefault(irrigation, r.date, r.components.i)
                /\ SampleOrDefault(et, r.date, r.components.et)
                /\ SampleOrDefault(deltaS, r.date, r.components.ds)

\* One series has a non-zero sample for the date, another has none, and a
\* third has two different samples for it.
Wit_C3_SampleOrDefault ==
    /\ pc = "wb_ret"
    /\ \E k \in 1..Len(waterBalance) :
          LET r == waterBalance[k]
          IN  /\ r.components.i > 0
              /\ r.date \notin DateSet(rainfall)
              /\ Len(deltaS) = 2
              /\ deltaS[1].date = r.date /\ deltaS[2].date = r.date
              /\ deltaS[1].value # deltaS[2].value

\* The formula shown by the page (page.tsx:602) with the clamp of the spec:
\* clamp(1.2 * (ndvi - ndviMin) / (ndviMax - ndviMin), 0, 1.2), in 1/600ths.
KcDocumented(v) ==
    Max(0, Min(KcCap, (KcCap * (v - ndviMin)) \div (ndviMax - ndviMin)))

\* C4: every Kc is clamp(1.2 * (ndvi - ndviMin) / (ndviMax - ndviMin), 0, 1.2);
\* ndvi = 0.8 gives 1.2 and ndvi = 0.5 gives 0.6.
CE_C4_KcFormula ==
    pc = "kc_ret" =>
        \A k \in 1..Len(kc) : kc[k].value = KcDocumented(ndvi[k].value)

\* C5: every Kc lies in [0, 1.2] whatever the NDVI value, and the kc series
\* has one point per NDVI point, with the same date.
Thm_C5_KcBounded ==
    pc = "kc_ret" =>
        /\ Len(kc) = Len(ndvi)
        /\ \A k \in 1..Len(kc) :
              /\ kc[k].date = ndvi[k].date
              /\ 0 <= kc[k].value
              /\ kc[k].value <= KcCap

\* NDVI values below -1 and above +1 in one series.
Wit_C5_KcBounded ==
    /\ pc = "kc_ret"
    /\ Len(kc) = 2
    /\ ndvi[1].value > 100
    /\ ndvi[2].value < 0 - 100

\* C6: calculateDeltaS returns exactly max(0, n - 1) points for a series of
\* length n.
Thm_C6_DeltaSLength ==
    pc = "ds_ret" => Len(deltaS) = Max(0, Len(soilMoisture) - 1)

Wit_C6_DeltaSLength ==
    /\ pc = "ds_ret"
    /\ Len(soilMoisture) = 3
    /\ Len(deltaS) = 2

\* C7: the k-th point of calculateDeltaS carries the date of m[k] and the
\* value m[k] - m[k-1]; the date of m[0] gets no point of its own.
Thm_C7_DeltaSPoints ==
    pc = "ds_ret" =>
        /\ \A k \in 1..(Len(soilMoisture) - 1) :
              /\ k <= Len(deltaS)
              /\ deltaS[k].date = soilMoisture[k + 1].date
              /\ deltaS[k].value = soilMoisture[k + 1].value - soilMoisture[k].value
        /\ (/\ Len(soilMoisture) >= 1
            /\ \A k \in 2..Len(soilMoisture) :
                  soilMoisture[k].date # soilMoisture[1].date)
           => soilMoisture[1].date \notin DateSet(deltaS)

Wit_C7_DeltaSPoints ==
    /\ pc = "ds_ret"
    /\ Len(soilMoisture) = 3
    /\ soilMoisture[1].date < soilMoisture[2].date
    /\ soilMoisture[2].date < soilMoisture[3].date
    /\ deltaS[1].value > 0
    /\ deltaS[2].value < 0

\* Every source of the request delivered an empty series.
AllSourcesEmpty ==
    /\ ndvi = <<>> /\ rainfall = <<>> /\ et = <<>>
    /\ soilMoisture = <<>> /\ irrigation = <<>>

ZeroRecord(r) ==
    /\ r.value = 0
    /\ r.components.p = 0 /\ r.components.i = 0
    /\ r.components.et = 0 /\ r.components.ds = 0

\* C8 as stated: a request over a 3-day range whose sources are all empty
\* returns exactly 3 records, each with value 0 and all components 0.
CE_C8_ThreeZeroRecords ==
    (pc = "done" /\ status = 200 /\ range = <<1, 3>> /\ AllSourcesEmpty) =>
        /\ Len(waterBalance) = 3
        /\ \A k \in 1..Len(waterBalance) : ZeroRecord(waterBalance[k])

\* C8 amended: a successful request whose sources are all empty returns no
\* water-balance record at all, whatever its date range; deltaS and kc are
\* empty too.
Thm_C8_EmptySourcesNoRecords ==
    (pc = "done" /\ status = 200 /\ AllSourcesEmpty) =>
        /\ waterBalance = <<>>
        /\ deltaS = <<>>
        /\ kc = <<>>

Wit_C8_EmptySourcesNoRecords ==
    /\ pc = "done"
    /\ status = 200
    /\ range = <<1, 3>>
    /\ AllSourcesEmpty
    /\ errors = {}

Sources == {"ndvi", "rainfall", "et", "sensor"}

\* C9: when the fetch of an upstream source errors or times out, the handler
\* still answers successfully, with an empty series for that source.
CE_C9_FetchErrorAbsorbed ==
    (pc = "done" /\ errors # {} /\ errors \subseteq Sources) =>
        /\ status = 200
        /\ ("ndvi" \in errors => ndvi = <<>>)
        /\ ("rainfall" \in errors => rainfall = <<>>)
        /\ ("et" \in errors => et = <<>>)
        /\ ("sensor" \in errors => soilMoisture = <<>> /\ irrigation = <<>>)

\* C10: every series of a successful invocation has strictly increasing dates,
\* whatever list of readings the sensor API returned (stated here for the
\* invocations whose satellite series arrived strictly increasing).
CE_C10_SeriesStrictlyIncreasing ==
    (/\ pc = "done" /\ status = 200
     /\ StrictlyIncreasing(ndvi) /\ StrictlyIncreasing(rainfall)
     /\ StrictlyIncreasing(et)) =>
        /\ StrictlyIncreasing(soilMoisture)
        /\ StrictlyIncreasing(irrigation)
        /\ StrictlyIncreasing(deltaS)
        /\ StrictlyIncreasing(kc)
        /\ StrictlyIncreasing(waterBalance)

\* C11: every date of the kc, deltaS, ndvi, rainfall and et series of a
\* response is the date of a waterBalance record of that response.
CE_C11_UnifiedDateAxis ==
    (pc = "done" /\ status = 200) =>
        (DateSet(kc) \cup DateSet(deltaS) \cup DateSet(ndvi)
            \cup DateSet(rainfall) \cup DateSet(et)) \subseteq DateSet(waterBalance)

----------------------------------------------------------------------------
(* The page's use of the water-balance list (page.tsx:469) *)

CurrentBalanceOf_NoDefault(list) ==
    IF Len(list) = 0 THEN Null ELSE list[Len(list)].value

\* data.waterBalance[data.waterBalance.length - 1]?.value || 0
CurrentBalanceOf(list) ==
    OrZero(IF Len(list) = 0 THEN Null ELSE list[Len(list)].value)

ShowCurrentBalance ==
    /\ pc = "wb_ret"
    /\ currentBalance' = CurrentBalanceOf(waterBalance)
    /\ pc' = "shown"
    /\ UNCHANGED <<range, eeInitialized, ndvi, rainfall, et, soilMoisture,
                   irrigation, deltaS, kc, waterBalance, errors, status>>
    /\ UNCHANGED <<calls, reqs, growth, cropGrowth, yieldStress, procs>>

\* calculateWaterBalance on any four series, then the page showing its result.
SpecPage == InitWB /\ [][CallCalculateWaterBalance \/ ShowCurrentBalance]_vars

AllInputsEmpty ==
    rainfall = <<>> /\ irrigation = <<>> /\ deltaS = <<>> /\ et = <<>>

\* C13: with all input series empty calculateWaterBalance returns an empty
\* list, and the page computes its current balance from a zero-row list as 0
\* (from a non-empty list as the value of the last record).
Thm_C13_EmptyTable ==
    /\ (pc \in {"wb_ret", "shown"} /\ AllInputsEmpty) => waterBalance = <<>>
    /\ pc = "shown" =>
          currentBalance =
              IF waterBalance = <<>> THEN 0
              ELSE waterBalance[Len(waterBalance)].value

Wit_C13_EmptyTable ==
    /\ pc = "shown"
    /\ AllInputsEmpty
    /\ waterBalance = <<>>
    /\ currentBalance = 0

----------------------------------------------------------------------------
(* The Kc map on a request with one NDVI sample on each day *)

\* Crop evapotranspiration, ET = Kc x ETo (WATER_BALANCE_SETUP.md:73)
EtcOf(kcValue, et0) == kcValue * et0

\* NDVI of bare soil (ndviMin) and of a canopy, in hundredths.
ScenarioNdvi == {20, 50}

DailySeries(vals) ==
    {[k \in 1..ScenarioDays |-> Point(k, f[k])] : f \in [1..ScenarioDays -> vals]}

InitKcScenario ==
    /\ pc = "kc_call"
    /\ range = <<1, 1>>
    /\ eeInitialized = FALSE
    /\ ndvi \in DailySeries(ScenarioNdvi)
    /\ et \in DailySeries(Values)
    /\ rainfall = <<>> /\ soilMoisture = <<>> /\ irrigation = <<>>
    /\ deltaS = <<>> /\ kc = <<>> /\ waterBalance = <<>>
    /\ errors = {}
    /\ status = 0
    /\ ExtInit

SpecKcScenario == InitKcScenario /\ [][CallKcValues]_vars

BareSoilEveryDay ==
    /\ Len(ndvi) = ScenarioDays
    /\ \A k \in 1..Len(ndvi) : ndvi[k].value = ndviMin

----------------------------------------------------------------------------
(* Two GET requests in one process (route.ts:160-307).  Every series is a   *)
(* `const` of the handler's own activation; eeInitialized is the one `let`  *)
(* of the module.  The requests interleave at each await.                   *)

Requests == {1, 2}

Other(r) == CHOOSE q \in Requests : q # r

\* What the upstream services may deliver to one request.
ConcNdviFeatures == {<<>>, <<[date |-> 1, value |-> 50]>>}
ConcRainFeatures == {<<>>, <<[date |-> 1, value |-> 1]>>}
ConcEtFeatures == {<<>>, <<[date |-> 2, value |-> 1]>>}
ConcBodies ==
    {<<>>,
     <<[timestamp |-> <<1, 8>>, soil_moisture |-> 0],
       [timestamp |-> <<2, 8>>, soil_moisture |-> 1]>>}

FreshRequest ==
    [pc |-> "idle", status |-> 0, errors |-> {},
     ndvi |-> <<>>, rainfall |-> <<>>, et |-> <<>>,
     soilMoisture |-> <<>>, irrigation |-> <<>>, deltaS |-> <<>>,
     kc |-> <<>>, waterBalance |-> <<>>]

InFlight(rec) == rec.pc \notin {"idle", "done"}

InitConc ==
    /\ pc = "conc"
    /\ range = <<1, 1>>
    /\ eeInitialized = FALSE
    /\ NoSeries
    /\ errors = {}
    /\ status = 0
    /\ currentBalance = 0
    /\ calls = <<>>
    /\ reqs = [r |-> [q \in Requests |-> FreshRequest],
               writers |-> {},      \* requests whose callback set eeInitialized
               crossReads |-> {},   \* <<reader, writer>> of eeInitialized
               overlapped |-> FALSE]
    /\ growth = <<>>
    /\ cropGrowth = <<>>
    /\ yieldStress = <<>>
    /\ ProcsInit

ConcFrame ==
    UNCHANGED <<pc, range, ndvi, rainfall, et, soilMoisture, irrigation, deltaS,
                kc, waterBalance, errors, status, currentBalance, calls, growth,
                cropGrowth, yieldStress, procs>>

\* Request r's activation record becomes `rec`; nothing else of reqs.r changes.
ReqStep(r, rec) ==
    [reqs EXCEPT !.r[r] = rec,
                 !.overlapped = @ \/ InFlight(reqs.r[Other(r)])]

\* Lines 216-228 and 162-163: the request reads eeInitialized.
ConcGET(r) ==
    /\ pc = "conc"
    /\ reqs.r[r].pc = "idle"
    /\ IF eeInitialized
       THEN reqs' = [ReqStep(r, [reqs.r[r] EXCEPT !.pc = "ndvi"])
                        EXCEPT !.crossReads =
                            @ \cup {<<r, w>> : w \in reqs.writers \ {r}}]
       ELSE reqs' = ReqStep(r, [reqs.r[r] EXCEPT !.pc = "authing"])
    /\ UNCHANGED eeInitialized
    /\ ConcFrame

\* Lines 199-203: the success callback of ee.initialize.
ConcInitializeEE(r) ==
    /\ pc = "conc"
    /\ reqs.r[r].pc = "authing"
    /\ eeInitialized' = TRUE
    /\ reqs' = [ReqStep(r, [reqs.r[r] EXCEPT !.pc = "ndvi"])
                    EXCEPT !.writers = @ \cup {r}]
    /\ ConcFrame

\* The request answers 500 from the catch of lines 297-306.
Failed(rec, source) ==
    [rec EXCEPT !.pc = "done", !.status = 500, !.errors = @ \cup {source}]

ConcInitializeEEFails(r) ==
    /\ pc = "conc"
    /\ reqs.r[r].pc = "authing"
    /\ reqs' = ReqStep(r, Failed(reqs.r[r], "ee"))
    /\ UNCHANGED eeInitialized
    /\ ConcFrame

ConcGetNdviFails(r) ==
    /\ pc = "conc"
    /\ reqs.r[r].pc = "ndvi"
    /\ reqs' = ReqStep(r, Failed(reqs.r[r], "ndvi"))
    /\ UNCHANGED eeInitialized
    /\ ConcFrame

ConcGetRainfallFails(r) ==
    /\ pc = "conc"
    /\ reqs.r[r].pc = "rainfall"
    /\ reqs' = ReqStep(r, Failed(reqs.r[r], "rainfall"))
    /\ UNCHANGED eeInitialized
    /\ ConcFrame

ConcGetEtFails(r) ==
    /\ pc = "conc"
    /\ reqs.r[r].pc = "et"
    /\ reqs' = ReqStep(r, Failed(reqs.r[r], "et"))
    /\ UNCHANGED eeInitialized
    /\ ConcFrame

ConcGetNdvi(r) ==
    /\ pc = "conc"
    /\ reqs.r[r].pc = "ndvi"
    /\ \E features \in ConcNdviFeatures :
          reqs' = ReqStep(r, [reqs.r[r] EXCEPT !.pc = "rainfall",
                                               !.ndvi = getTimeSeries(features)])
    /\ UNCHANGED eeInitialized
    /\ ConcFrame

ConcGetRainfall(r) ==
    /\ pc = "conc"
    /\ reqs.r[r].pc = "rainfall"
    /\ \E features \in ConcRainFeatures :
          reqs' = ReqStep(r, [reqs.r[r] EXCEPT !.pc = "et",
                                               !.rainfall = getTimeSeries(features)])
    /\ UNCHANGED eeInitialized
    /\ ConcFrame

ConcGetEt(r) ==
    /\ pc = "conc"
    /\ reqs.r[r].pc = "et"
    /\ \E features \in ConcEtFeatures :
          reqs' = ReqStep(r, [reqs.r[r] EXCEPT !.pc = "sensor",
                                               !.et = getTimeSeries(features),
                                               !.kc = kcValues(reqs.r[r].ndvi)])
    /\ UNCHANGED eeInitialized
    /\ ConcFrame

\* The satellite series request r hands to calculateWaterBalance, lines 273-278.
OwnSeries_ModuleLevel(rs, r) ==
    [rainfall |-> rs[Other(r)].rainfall, et |-> rs[r].et]

OwnSeries(rs, r) == [rainfall |-> rs[r].rainfall, et |-> rs[r].et]

\* Lines 270-296 in request r; `failed` are the sources that errored on the way.
ConcCompute(r, sensorData, failed) ==
    LET own == OwnSeries(reqs.r, r)
        ds == calculateDeltaS(sensorData.soilMoisture)
    IN  reqs' = ReqStep(r,
            [reqs.r[r] EXCEPT
                !.pc = "done",
                !.status = 200,
                !.errors = @ \cup failed,
                !.soilMoisture = sensorData.soilMoisture,
                !.irrigation = sensorData.irrigation,
                !.deltaS = ds,
                !.waterBalance =
                    calculateWaterBalance([rainfall |-> own.rainfall,
                                           irrigation |-> sensorData.irrigation,
                                           deltaS |-> ds,
                                           et |-> own.et])])

ConcFetchSensorData(r) ==
    /\ pc = "conc"
    /\ reqs.r[r].pc = "sensor"
    /\ \E body \in ConcBodies : ConcCompute(r, SensorSeries(body), {})
    /\ UNCHANGED eeInitialized
    /\ ConcFrame

ConcFetchSensorDataFails(r) ==
    /\ pc = "conc"
    /\ reqs.r[r].pc = "sensor"
    /\ ConcCompute(r, SensorFallback, {"sensor"})
    /\ UNCHANGED eeInitialized
    /\ ConcFrame

NextConc ==
    \E r \in Requests :
        \/ ConcGET(r)
        \/ ConcInitializeEE(r)
        \/ ConcInitializeEEFails(r)
        \/ ConcGetNdvi(r)
        \/ ConcGetNdviFails(r)
        \/ ConcGetRainfall(r)
        \/ ConcGetRainfallFails(r)
        \/ ConcGetEt(r)
        \/ ConcGetEtFails(r)
        \/ ConcFetchSensorData(r)
        \/ ConcFetchSensorDataFails(r)

SpecConc == InitConc /\ [][NextConc]_vars

\* The series of a successful response are those the handler computes from
\* the request's own fetched series.
ResponseFromOwnSeries(rec) ==
    /\ rec.kc = kcValues(rec.ndvi)
    /\ rec.deltaS = calculateDeltaS(rec.soilMoisture)
    /\ rec.waterBalance =
          calculateWaterBalance([rainfall |-> rec.rainfall,
                                 irrigation |-> rec.irrigation,
                                 deltaS |-> rec.deltaS,
                                 et |-> rec.et])

ResponsesAsAlone ==
    \A r \in Requests :
        (reqs.r[r].pc = "done" /\ reqs.r[r].status = 200) =>
            ResponseFromOwnSeries(reqs.r[r])

\* C15 as stated: for any interleaving of two requests each response is the
\* one the request produces alone, and no module-level variable written by one
\* request is read by the other.
CE_C15_NoSharedState ==
    pc = "conc" => (ResponsesAsAlone /\ reqs.crossReads = {})

\* C15 amended: the series of each response are computed from that request's
\* own fetched series only, for any interleaving; the one module-level
\* variable, eeInitialized, is shared: a request reads it as written by the
\* other only after the other's ee.initialize callback has set it.
Thm_C15_OnlyFlagShared ==
    pc = "conc" =>
        /\ ResponsesAsAlone
        /\ \A pair \in reqs.crossReads :
              /\ pair[1] # pair[2]
              /\ pair[2] \in reqs.writers
              /\ eeInitialized
        /\ (reqs.writers # {}) = eeInitialized

\* Both requests were in flight together and answered with different data,
\* one of them having skipped the initialization the other performed.
Wit_C15_OnlyFlagShared ==
    /\ pc = "conc"
    /\ reqs.overlapped
    /\ \A r \in Requests : reqs.r[r].pc = "done" /\ reqs.r[r].status = 200
    /\ reqs.r[1].rainfall # reqs.r[2].rainfall
    /\ reqs.r[1].waterBalance # reqs.r[2].waterBalance
    /\ reqs.crossReads # {}

----------------------------------------------------------------------------
(* calculateDeltaS and calculateWaterBalance called repeatedly, in any      *)
(* order, on series held by the caller (route.ts:379-421)                   *)

InitPure ==
    /\ pc = "pure"
    /\ range = <<1, 1>>
    /\ eeInitialized = FALSE
    /\ soilMoisture \in Series(Values, MaxPoints)
    /\ rainfall \in Series(Values, MaxPoints - Len(soilMoisture))
    /\ irrigation \in Series(Values, MaxPoints - Len(soilMoisture) - Len(rainfall))
    /\ et \in Series(Values,
                     MaxPoints - Len(soilMoisture) - Len(rainfall) - Len(irrigation))
    /\ ndvi = <<>> /\ deltaS = <<>> /\ kc = <<>> /\ waterBalance = <<>>
    /\ errors = {}
    /\ status = 0
    /\ ExtInit

WbArgs == [rainfall |-> rainfall, irrigation |-> irrigation,
           deltaS |-> deltaS, et |-> et]

\* The function reads its argument arrays (length, index, map, find, spread)
\* and writes only arrays it created itself, so the caller's series stay.
PureCalculateDeltaS ==
    /\ pc = "pure"
    /\ Len(calls) < MaxCalls
    /\ deltaS' = calculateDeltaS(soilMoisture)
    /\ UNCHANGED <<soilMoisture, rainfall, irrigation, et, waterBalance>>
    /\ calls' = Append(calls, [fn |-> "calculateDeltaS",
                               args |-> <<soilMoisture>>,
                               argsAfter |-> <<soilMoisture'>>,
                               result |-> deltaS'])
    /\ UNCHANGED <<pc, range, eeInitialized, ndvi, kc, errors, status>>
    /\ UNCHANGED <<currentBalance, reqs, growth, cropGrowth, yieldStress, procs>>

PureCalculateWaterBalance ==
    /\ pc = "pure"
    /\ Len(calls) < MaxCalls
    /\ waterBalance' = calculateWaterBalance(WbArgs)
    /\ UNCHANGED <<soilMoisture, rainfall, irrigation, et, deltaS>>
    /\ calls' = Append(calls, [fn |-> "calculateWaterBalance",
                               args |-> <<WbArgs>>,
                               argsAfter |-> <<WbArgs'>>,
                               result |-> waterBalance'])
    /\ UNCHANGED <<pc, range, eeInitialized, ndvi, kc, errors, status>>
    /\ UNCHANGED <<currentBalance, reqs, growth, cropGrowth, yieldStress, procs>>

SpecPure == InitPure /\ [][PureCalculateDeltaS \/ PureCalculateWaterBalance]_vars

----------------------------------------------------------------------------
(* CropGrowthModel (spec.md section 4.6; consumed by page.tsx:330-337).     *)
(* One orchestrator invocation is one ordered pass over the daily           *)
(* temperature extremes of the requested range.  Heat is counted in halves  *)
(* of a degree-day so that (Tmax + Tmin)/2 stays an integer.                *)

GddUnit == 1 + 1

\* Base temperature in degrees Celsius (tobacco default).
Tbase == 10

\* <<Tmax, Tmin>> of a day: a warm day and a day whose mean is below Tbase.
TempSamples == {<<30, 20>>, <<8, 2>>}

Stages == <<"emergence", "vegetative", "flowering", "maturity">>

StageRank(label) == CHOOSE i \in 1..Len(Stages) : Stages[i] = label

\* Accumulated-GDD thresholds that open the second, third and fourth stage;
\* the table is configuration, any ascending one is admitted.
ThresholdTables ==
    {t \in {20, 50, 80, 110} \X {20, 50, 80, 110} \X {20, 50, 80, 110} :
        t[1] < t[2] /\ t[2] < t[3]}

GddOf_NoClamp(tmax, tmin) == tmax + tmin - GddUnit * Tbase

\* GDD = max(0, (Tmax + Tmin)/2 - Tbase), in GddUnit-ths.
GddOf(tmax, tmin) == Max(0, tmax + tmin - GddUnit * Tbase)

StageOf_DefaultBeyondTable(accumulated, table) ==
    IF accumulated < GddUnit * table[1] THEN Stages[1]
    ELSE IF accumulated < GddUnit * table[2] THEN Stages[2]
    ELSE IF accumulated < GddUnit * table[3] THEN Stages[3]
    ELSE Stages[1]

\* The last stage of the ordered table whose threshold has been reached.
StageOf(accumulated, table) ==
    IF accumulated < GddUnit * table[1] THEN Stages[1]
    ELSE IF accumulated < GddUnit * table[2] THEN Stages[2]
    ELSE IF accumulated < GddUnit * table[3] THEN Stages[3]
    ELSE Stages[4]

InitialAccumulated_Carried(previous) == previous

\* The accumulator at the first date of an invocation.
InitialAccumulated(previous) == 0

InitGrowth ==
    /\ pc = "growth"
    /\ range = <<1, 1>>
    /\ eeInitialized = FALSE
    /\ NoSeries
    /\ errors = {}
    /\ status = 0
    /\ currentBalance = 0
    /\ calls = <<>>
    /\ reqs = <<>>
    /\ growth \in [table : ThresholdTables, temps : {<<>>},
                   accumulated : {InitialAccumulated(0)}, runs : {0},
                   earlierHeat : {FALSE}]
    /\ cropGrowth = <<>>
    /\ yieldStress = <<>>
    /\ ProcsInit

GrowthFrame ==
    UNCHANGED <<pc, range, eeInitialized, ndvi, rainfall, et, soilMoisture,
                irrigation, deltaS, kc, waterBalance, errors, status,
                currentBalance, calls, reqs, yieldStress, procs>>

\* One date of the pass: the day's GDD, the running sum and the stage.
GrowthDay ==
    /\ pc = "growth"
    /\ Len(cropGrowth) < GrowthDays
    /\ \E t \in TempSamples :
         LET gdd == GddOf(t[1], t[2])
             accumulatedGdd == growth.accumulated + gdd
         IN  /\ cropGrowth' =
                    Append(cropGrowth,
                           [date |-> Len(cropGrowth) + 1,
                            gdd |-> gdd,
                            accumulatedGdd |-> accumulatedGdd,
                            growthStage |-> StageOf(accumulatedGdd, growth.table)])
             /\ growth' = [growth EXCEPT !.temps = Append(@, t),
                                         !.accumulated = accumulatedGdd]
    /\ GrowthFrame

\* The orchestrator is invoked again, for a new range.
GrowthNewInvocation ==
    /\ pc = "growth"
    /\ growth.runs < MaxRuns
    /\ cropGrowth # <<>>
    /\ cropGrowth' = <<>>
    /\ growth' = [growth EXCEPT
                     !.temps = <<>>,
                     !.accumulated = InitialAccumulated(growth.accumulated),
                     !.runs = @ + 1,
                     !.earlierHeat = @ \/ growth.accumulated > 0]
    /\ GrowthFrame

SpecGrowth == InitGrowth /\ [][GrowthDay \/ GrowthNewInvocation]_vars

RECURSIVE HeatUpTo(_)
\* GDD of the first k days of the temperatures of this invocation.
HeatUpTo(k) ==
    IF k = 0 THEN 0
    ELSE HeatUpTo(k - 1)
         + Max(0, growth.temps[k][1] + growth.temps[k][2] - GddUnit * Tbase)

\* The per-day part of C17: gdd is max(0, (Tmax+Tmin)/2 - Tbase) and not
\* negative, accumulatedGdd is the sum of gdd from the first date on and
\* never falls.
GddIsRunningSum ==
    \A k \in 1..Len(cropGrowth) :
        /\ cropGrowth[k].gdd >= 0
        /\ cropGrowth[k].gdd = HeatUpTo(k) - HeatUpTo(k - 1)
        /\ cropGrowth[k].accumulatedGdd = HeatUpTo(k)
        /\ k > 1 => cropGrowth[k].accumulatedGdd
                        >= cropGrowth[k - 1].accumulatedGdd

\* Ten days of Tmax 30, Tmin 20 at the start of the range.
TenWarmDays ==
    /\ Len(cropGrowth) >= 10
    /\ \A k \in 1..10 : growth.temps[k] = <<30, 20>>

\* C17 as stated: the running-sum invariant, and ten days of Tmax 30, Tmin 20
\* with Tbase 10 give gdd 10 a day and accumulatedGdd 100 after the tenth.
CE_C17_TenADay ==
    pc = "growth" =>
        /\ GddIsRunningSum
        /\ TenWarmDays =>
              /\ \A k \in 1..10 : cropGrowth[k].gdd = 10 * GddUnit
              /\ cropGrowth[10].accumulatedGdd = 100 * GddUnit

\* C17, amended: the running-sum invariant, and ten days of Tmax 30, Tmin 20
\* with Tbase 10 give gdd 15 a day and accumulatedGdd 150 after the tenth.
Thm_C17_GddRunningSum ==
    pc = "growth" =>
        /\ GddIsRunningSum
        /\ TenWarmDays =>
              /\ \A k \in 1..10 : cropGrowth[k].gdd = 15 * GddUnit
              /\ cropGrowth[10].accumulatedGdd = 150 * GddUnit

\* Ten warm days, in an invocation that follows one whose only days were
\* below the base temperature.
Wit_C17_GddRunningSum ==
    /\ pc = "growth"
    /\ TenWarmDays
    /\ cropGrowth[10].accumulatedGdd = 150 * GddUnit
    /\ growth.runs > 0 /\ ~growth.earlierHeat

\* C18: whatever invocations came before, the accumulator of an invocation
\* starts from 0: its first record accumulates that day's gdd alone and its
\* running value is the heat of its own temperatures.
Thm_C18_ResetPerInvocation ==
    pc = "growth" =>
        /\ growth.accumulated = HeatUpTo(Len(growth.temps))
        /\ cropGrowth # <<>> =>
              cropGrowth[1].accumulatedGdd = cropGrowth[1].gdd

\* A later invocation, after one that accumulated heat, with a record.
Wit_C18_ResetPerInvocation ==
    /\ pc = "growth"
    /\ growth.runs = MaxRuns
    /\ growth.earlierHeat
    /\ Len(cropGrowth) >= 2
    /\ cropGrowth[1].gdd > 0
    /\ cropGrowth[2].accumulatedGdd > cropGrowth[1].accumulatedGdd

\* C19: within one computation a later record never carries an earlier stage
\* of the table than the record before it.
Thm_C19_StageMonotone ==
    pc = "growth" =>
        \A k \in 1..Len(cropGrowth) : \A j \in 1..k :
            StageRank(cropGrowth[j].growthStage)
                <= StageRank(cropGrowth[k].growthStage)

\* A computation that passes through all four stages.
Wit_C19_StageMonotone ==
    /\ pc = "growth"
    /\ cropGrowth # <<>>
    /\ {cropGrowth[k].growthStage : k \in 1..Len(cropGrowth)}
          = {Stages[i] : i \in 1..Len(Stages)}
    /\ cropGrowth[Len(cropGrowth)].growthStage = Stages[Len(Stages)]

----------------------------------------------------------------------------
(* YieldStressCombiner (spec.md section 4.7; consumed by page.tsx:346-352). *)
(* A stress factor f in [0, 1] is the integer f * GridSteps; a product of   *)
(* two factors is counted in 1/GridSteps^2.  The water balance of a date is *)
(* counted in referenceDepth/GridSteps.                                     *)

StressGrid == 0..GridSteps

CombinedUnit == GridSteps * GridSteps

\* Ceiling of the yield impact, in percent.
maxImpactPercent == 50

\* Daily balances from a deficit deeper than referenceDepth to a surplus.
Balances == (0 - GridSteps - 1)..1

WaterStressOf_NoClamp(balance) == GridSteps + balance

\* waterStress = clamp(1 + balance/referenceDepth, 0, 1)
WaterStressOf(balance) == Max(0, Min(GridSteps, GridSteps + balance))

\* combinedStress = vpdStress * waterStress
CombinedStressOf(vpdStress, waterStress) == vpdStress * waterStress

\* yieldImpact = (1 - combinedStress) * maxImpactPercent, in 1/GridSteps^2 percent
YieldImpactOf(combinedStress) == (CombinedUnit - combinedStress) * maxImpactPercent

InitStress ==
    /\ pc = "stress"
    /\ range = <<1, 1>>
    /\ eeInitialized = FALSE
    /\ NoSeries
    /\ errors = {}
    /\ status = 0
    /\ ExtInit

\* One date: the VPD stress factor and the balance of the date are combined.
CombineDay ==
    /\ pc = "stress"
    /\ Len(yieldStress) < MaxStressDays
    /\ \E vpdStress \in StressGrid, balance \in Balances :
         LET waterStress == WaterStressOf(balance)
             combinedStress == CombinedStressOf(vpdStress, waterStress)
         IN  yieldStress' =
                 Append(yieldStress,
                        [date |-> Len(yieldStress) + 1,
                         vpdStress |-> vpdStress,
                         waterStress |-> waterStress,
                         combinedStress |-> combinedStress,
                         yieldImpact |-> YieldImpactOf(combinedStress)])
    /\ UNCHANGED <<pc, range, eeInitialized, ndvi, rainfall, et, soilMoisture,
                   irrigation, deltaS, kc, waterBalance, errors, status,
                   currentBalance, calls, reqs, growth, cropGrowth,
                   procs>>

SpecStress == InitStress /\ [][CombineDay]_vars

\* C20: on every date combinedStress is vpdStress * waterStress and lies in
\* [0, 1]; of two records with one factor equal, the one whose other factor
\* is lower has the combinedStress that is not higher.
Thm_C20_CombinedStress ==
    pc = "stress" =>
        \A k \in 1..Len(yieldStress) :
            /\ yieldStress[k].combinedStress
                  = yieldStress[k].vpdStress * yieldStress[k].waterStress
            /\ yieldStress[k].combinedStress >= 0
            /\ yieldStress[k].combinedStress <= CombinedUnit
            /\ \A j \in 1..Len(yieldStress) :
                  /\ (/\ yieldStress[j].waterStress = yieldStress[k].waterStress
                      /\ yieldStress[j].vpdStress <= yieldStress[k].vpdStress)
                        => yieldStress[j].combinedStress
                              <= yieldStress[k].combinedStress
                  /\ (/\ yieldStress[j].vpdStress = yieldStress[k].vpdStress
                      /\ yieldStress[j].waterStress <= yieldStress[k].waterStress)
                        => yieldStress[j].combinedStress
                              <= yieldStress[k].combinedStress

\* Two dates with the same VPD stress, strictly between 0 and 1, the second
\* with the lower water stress and the strictly lower combined stress.
Wit_C20_CombinedStress ==
    /\ pc = "stress"
    /\ Len(yieldStress) = 2
    /\ yieldStress[1].vpdStress = yieldStress[2].vpdStress
    /\ yieldStress[1].vpdStress > 0 /\ yieldStress[1].vpdStress < GridSteps
    /\ yieldStress[2].waterStress < yieldStress[1].waterStress
    /\ yieldStress[2].combinedStress < yieldStress[1].combinedStress
    /\ yieldStress[2].combinedStress > 0

----------------------------------------------------------------------------
(* The other programs of the repository.  Each has its own variable; all    *)
(* start together, every one as its process starts it.                      *)

water == <<pc, range, eeInitialized, ndvi, rainfall, et, soilMoisture,
           irrigation, deltaS, kc, waterBalance, errors, status>>

page == <<currentBalance, calls, reqs, growth, cropGrowth, yieldStress>>

InitProcs ==
    /\ pc = "procs"
    /\ range = <<1, 1>>
    /\ eeInitialized = FALSE
    /\ NoSeries
    /\ errors = {}
    /\ status = 0
    /\ ExtInit

----------------------------------------------------------------------------
(* VpdStressModel (spec.md section 4.5; consumed by page.tsx:338-345).      *)
(* Pressures are in hundredths of a kPa, the stress factor in hundredths.   *)

StressUnit == 10 * 10

\* Plausible range of the daily mean temperature, in degrees Celsius.
TClampLow == 0 - 40
TClampHigh == 60

\* The VPD band without stress, and the VPD span over which the factor
\* falls from 1 to 0 above the band.
VpdOptimalLow == 80
VpdOptimalHigh == 120
VpdFalloff == 300

\* Daily mean temperatures, two of them outside the plausible range, and
\* relative humidities, one of them above 100 %.
Temperatures == {0 - 50, 5, 10, 20, 30, 70}
Humidities == {0, 25, 50, 75, 100, 120}

ClampT(T) == Max(TClampLow, Min(TClampHigh, T))

\* es = 0.6108 * exp(17.27 T / (T + 237.3)), tabulated at the sample
\* temperatures and rounded to hundredths of a kPa.
SaturationVapourPressure(T) ==
    CASE T = 0 - 40 -> 2
      [] T = 5      -> 87
      [] T = 10     -> 123
      [] T = 20     -> 234
      [] T = 30     -> 424
      [] T = 60     -> 1993

\* VPD = es - ea, ea = es * RH / 100
VpdOf(T, RH) ==
    LET es == SaturationVapourPressure(ClampT(T))
        ea == (es * RH) \div 100
    IN  es - ea

StressFactorOf_NoFloor(vpd) ==
    IF vpd < VpdOptimalLow THEN (vpd * StressUnit) \div VpdOptimalLow
    ELSE IF vpd <= VpdOptimalHigh THEN StressUnit
    ELSE StressUnit - ((vpd - VpdOptimalHigh) * StressUnit) \div VpdFalloff

\* 1 inside the optimal band, falling towards 0 on either side of it.
StressFactorOf(vpd) ==
    IF vpd < VpdOptimalLow
        THEN Max(0, (vpd * StressUnit) \div VpdOptimalLow)
    ELSE IF vpd <= VpdOptimalHigh THEN StressUnit
    ELSE Max(0, StressUnit
                  - ((vpd - VpdOptimalHigh) * StressUnit) \div VpdFalloff)

\* The bucket of the VPD, from the thresholds of the stress factor.
CategoryOf(vpd) ==
    IF vpd < VpdOptimalLow THEN "low"
    ELSE IF vpd <= VpdOptimalHigh THEN "optimal"
    ELSE "high"

VpdFrame ==
    UNCHANGED <<water, page, proxy, gee, apiClient, tokenCache, users, bridge,
                configCache, transmitter>>

\* One date of the analysis.
AnalyseVpdDay ==
    /\ pc = "procs"
    /\ Len(vpdAnalysis) < MaxVpdDays
    /\ \E T \in Temperatures, RH \in Humidities :
         LET vpd == VpdOf(T, RH)
         IN  vpdAnalysis' =
                 Append(vpdAnalysis,
                        [date |-> Len(vpdAnalysis) + 1,
                         vpd |-> vpd,
                         stressFactor |-> StressFactorOf(vpd),
                         category |-> CategoryOf(vpd),
                         temperature |-> T,
                         humidity |-> RH])
    /\ VpdFrame

SpecVpd == InitProcs /\ [][AnalyseVpdDay]_vars

\* C21: every VPD analysis record has a stressFactor in [0, 1], and its
\* category is "optimal" exactly when its VPD lies in the optimal band, where
\* the factor is 1.
Thm_C21_StressFactorAndCategory ==
    \A k \in 1..Len(vpdAnalysis) :
        LET rec == vpdAnalysis[k]
        IN  /\ rec.stressFactor >= 0
            /\ rec.stressFactor <= StressUnit
            /\ rec.category = "optimal"
                  <=> (VpdOptimalLow <= rec.vpd /\ rec.vpd <= VpdOptimalHigh)
            /\ rec.category = "optimal" => rec.stressFactor = StressUnit

\* An analysis with a day in the optimal band after a day whose VPD is far
\* above it, at a temperature outside the plausible range.
Wit_C21_StressFactorAndCategory ==
    /\ Len(vpdAnalysis) = 2
    /\ vpdAnalysis[1].temperature > TClampHigh
    /\ vpdAnalysis[1].category = "high"
    /\ vpdAnalysis[1].stressFactor = 0
    /\ vpdAnalysis[2].category = "optimal"
    /\ vpdAnalysis[2].stressFactor = StressUnit

----------------------------------------------------------------------------
(* GET /api/water-balance: the proxying handler (route.ts:19-92) and the    *)
(* location of the Earth Engine handler (route.ts:216-231).  A query        *)
(* parameter is its text; NoParam stands for searchParams.get returning     *)
(* null.                                                                    *)

NoParam == "<null>"

\* NEXT_PUBLIC_FARM_CENTER_LAT / _LNG defaults (page.tsx:387-388).
farmCenter == [lat |-> "-18.30252535", lng |-> "31.56415345"]

LatParams == {NoParam, "", farmCenter.lat, "12.5"}
LngParams == {NoParam, "", farmCenter.lng, "7.25"}

\* !x of a string-or-null.
Falsy(x) == x = NoParam \/ x = ""

\* AbortSignal.timeout(60000), in milliseconds, and the step of the clock.
ProxyTimeoutMs == 60000
ClockStepMs == 20 * 1000

\* error.name of what fetch rejects with: a signal made by
\* AbortSignal.timeout aborts with a DOMException named TimeoutError; a
\* connection that cannot be made gives a TypeError.
TimeoutErrorName == "TimeoutError"
NetworkErrorName == "TypeError"

\* Statuses a backend answers with other than 2xx.
BackendErrorStatuses == {404, 500, 503}

\* The catch block, lines 70-91.
CatchResponse(errorName) ==
    IF errorName = "AbortError"
        THEN [status |-> 504,
              error |-> "Request timed out. The backend may be processing GEE data."]
        ELSE [status |-> 500, error |-> "error.message"]

\* Number.parseFloat(searchParams.get(name) || "0"), lines 219-220.
ParamOrZero(x) == IF Falsy(x) THEN "0" ELSE x

ProxyFrame ==
    UNCHANGED <<water, page, vpdAnalysis, gee, apiClient, tokenCache, users,
                bridge, configCache, transmitter>>

CanServe == proxy.stage = "idle" /\ Len(proxy.responses) < MaxProxyRequests

\* Lines 19-36: a request without lat or lng is answered at once.
ProxyGETRejects ==
    /\ pc = "procs" /\ CanServe
    /\ \E lat \in LatParams, lng \in LngParams :
         /\ Falsy(lat) \/ Falsy(lng)
         /\ proxy' = [proxy EXCEPT
                 !.lat = lat, !.lng = lng,
                 !.responses = Append(@, [handler |-> "proxy",
                                          lat |-> lat, lng |-> lng,
                                          cause |-> "missing",
                                          location |-> <<>>,
                                          status |-> 400,
                                          error |-> "lat and lng parameters are required"])]
    /\ ProxyFrame

\* Lines 38-53: the request is passed on and the handler awaits fetch.
ProxyGETFetches ==
    /\ pc = "procs" /\ CanServe
    /\ \E lat \in LatParams, lng \in LngParams :
         /\ ~(Falsy(lat) \/ Falsy(lng))
         /\ proxy' = [proxy EXCEPT !.stage = "fetching", !.lat = lat,
                                   !.lng = lng, !.waited = 0]
    /\ ProxyFrame

Answer(cause, response) ==
    proxy' = [proxy EXCEPT
                 !.stage = "idle",
                 !.responses = Append(@, [handler |-> "proxy",
                                          lat |-> proxy.lat, lng |-> proxy.lng,
                                          cause |-> cause,
                                          location |-> <<proxy.lat, proxy.lng>>,
                                          status |-> response.status,
                                          error |-> response.error])]

\* Time passes while the backend has not answered.
ProxyWait ==
    /\ pc = "procs"
    /\ proxy.stage = "fetching"
    /\ proxy.waited < ProxyTimeoutMs
    /\ proxy' = [proxy EXCEPT !.waited = @ + ClockStepMs]
    /\ ProxyFrame

\* Lines 66-68: the backend answered in time with a 2xx status.
ProxyBackendOk ==
    /\ pc = "procs"
    /\ proxy.stage = "fetching"
    /\ proxy.waited < ProxyTimeoutMs
    /\ Answer("ok", [status |-> 200, error |-> ""])
    /\ ProxyFrame

\* Lines 55-64: the backend answered in time with another status.
ProxyBackendNotOk ==
    /\ pc = "procs"
    /\ proxy.stage = "fetching"
    /\ proxy.waited < ProxyTimeoutMs
    /\ \E s \in BackendErrorStatuses :
         Answer("backend status", [status |-> s, error |-> "Backend error"])
    /\ ProxyFrame

\* The connection failed: fetch rejects and the catch block answers.
ProxyNetworkError ==
    /\ pc = "procs"
    /\ proxy.stage = "fetching"
    /\ proxy.waited < ProxyTimeoutMs
    /\ Answer("network", CatchResponse(NetworkErrorName))
    /\ ProxyFrame

\* The 60 seconds are over: the signal aborts fetch and the catch block
\* answers.
ProxyTimeout ==
    /\ pc = "procs"
    /\ proxy.stage = "fetching"
    /\ proxy.waited >= ProxyTimeoutMs
    /\ Answer("timeout", CatchResponse(TimeoutErrorName))
    /\ ProxyFrame

\* The Earth Engine handler, lines 216-231: the point it computes for.
EeGET ==
    /\ pc = "procs" /\ CanServe
    /\ \E lat \in LatParams, lng \in LngParams :
         proxy' = [proxy EXCEPT
                 !.lat = lat, !.lng = lng,
                 !.responses = Append(@, [handler |-> "earth engine",
                                          lat |-> lat, lng |-> lng,
                                          cause |-> "ok",
                                          location |-> <<ParamOrZero(lat),
                                                         ParamOrZero(lng)>>,
                                          status |-> 200,
                                          error |-> ""])]
    /\ ProxyFrame

NextProxy ==
    \/ ProxyGETRejects \/ ProxyGETFetches \/ ProxyWait \/ ProxyBackendOk
    \/ ProxyBackendNotOk \/ ProxyNetworkError \/ ProxyTimeout \/ EeGET

SpecProxy == InitProcs /\ [][NextProxy]_vars

\* C22: a GET that omits lat and lng is not rejected and is served for the
\* farm-center coordinates.
CE_C22_FarmCenterDefault ==
    \A k \in 1..Len(proxy.responses) :
        LET resp == proxy.responses[k]
        IN  (resp.lat = NoParam /\ resp.lng = NoParam)
                => /\ resp.status # 400
                   /\ resp.location = <<farmCenter.lat, farmCenter.lng>>

\* C23: a proxied GET that the backend did not answer within the timeout is
\* answered with status 504, and a fetch that failed otherwise with 500.
CE_C23_TimeoutIs504 ==
    \A k \in 1..Len(proxy.responses) :
        LET resp == proxy.responses[k]
        IN  /\ resp.cause = "timeout" => resp.status = 504
            /\ resp.cause = "network" => resp.status = 500

----------------------------------------------------------------------------
(* Earth Engine initialisation: initializeEarthEngine (gee/route.ts:4-60)   *)
(* and initializeEE (water-balance/route.ts:159-214), each with the         *)
(* eeInitialized flag of its own module, each called by the GETs of its     *)
(* route.  A step is what runs between two awaits or callbacks.  The        *)
(* credentials are configured.                                              *)

GeeModules == {"gee", "water-balance"}

GeeFrame ==
    UNCHANGED <<water, page, vpdAnalysis, proxy, apiClient, tokenCache, users,
                bridge, configCache, transmitter>>

\* `if (eeInitialized) return`: the flag is set and the call returns.
GeeAlreadyInitialized(m, r) ==
    /\ pc = "procs"
    /\ gee[m].stage[r] = "new"
    /\ gee[m].eeInitialized
    /\ gee' = [gee EXCEPT ![m].stage[r] = "ready"]
    /\ GeeFrame

\* The flag is not set: the credentials are read and
\* ee.data.authenticateViaPrivateKey is called.
GeeAuthenticate(m, r) ==
    /\ pc = "procs"
    /\ gee[m].stage[r] = "new"
    /\ ~gee[m].eeInitialized
    /\ gee' = [gee EXCEPT ![m].stage[r] = "authenticating",
                          ![m].started = @ + 1]
    /\ GeeFrame

\* The success callback of authenticateViaPrivateKey calls ee.initialize.
GeeAuthenticated(m, r) ==
    /\ pc = "procs"
    /\ gee[m].stage[r] = "authenticating"
    /\ gee' = [gee EXCEPT ![m].stage[r] = "initializing"]
    /\ GeeFrame

\* The success callback of ee.initialize sets the flag and resolves.
GeeInitialized(m, r) ==
    /\ pc = "procs"
    /\ gee[m].stage[r] = "initializing"
    /\ gee' = [gee EXCEPT ![m].stage[r] = "ready",
                          ![m].eeInitialized = TRUE,
                          ![m].reported = TRUE]
    /\ GeeFrame

\* Either call reports an error: reject, and the GET fails.
GeeRejected(m, r) ==
    /\ pc = "procs"
    /\ gee[m].stage[r] \in {"authenticating", "initializing"}
    /\ gee' = [gee EXCEPT ![m].stage[r] = "failed"]
    /\ GeeFrame

NextGee ==
    \E m \in GeeModules, r \in Requests :
        \/ GeeAlreadyInitialized(m, r)
        \/ GeeAuthenticate(m, r)
        \/ GeeAuthenticated(m, r)
        \/ GeeInitialized(m, r)
        \/ GeeRejected(m, r)

SpecGee == InitProcs /\ [][NextGee]_vars

\* C24: whatever the interleaving of the GETs of a route, the
\* authenticate-and-initialize sequence is started at most once, and
\* eeInitialized is true only after ee.initialize has reported success.
CE_C24_InitializedOnce ==
    \A m \in GeeModules :
        /\ gee[m].started <= 1
        /\ gee[m].eeInitialized => gee[m].reported

----------------------------------------------------------------------------
(* ApiClient.fetchWithFallback (lib/api.ts:168-223).                        *)

ApiTypes == {"sensor", "disease", "yield"}

\* What one fetch and the reading of its body can come to.
FetchOutcomes ==
    {"ok", "ok, body is not JSON", "not ok", "network error", "timeout"}

\* fetch resolved with response.ok: nothing was thrown inside the try.
FetchOk(outcome) == outcome \in {"ok", "ok, body is not JSON"}

PortOf(apiType) ==
    IF apiType = "disease" THEN 8000 ELSE IF apiType = "yield" THEN 9000 ELSE 5000

PrimaryUrl(apiType) == [host |-> "primary", api |-> apiType]

FallbackUrl(apiType) == [host |-> "fallback", port |-> PortOf(apiType)]

\* `return response.json()`: the promise of the body is returned as it is,
\* so its rejection is the rejection of the call.
BodyResult(outcome, host) ==
    IF outcome = "ok" THEN [kind |-> "returned", from |-> host]
    ELSE [kind |-> "thrown", error |-> "SyntaxError"]

ApiFrame ==
    UNCHANGED <<water, page, vpdAnalysis, proxy, gee, tokenCache, users, bridge,
                configCache, transmitter>>

\* Lines 168-187: the call starts with the fetch of the primary URL.
FetchWithFallback ==
    /\ pc = "procs"
    /\ apiClient.stage = "idle"
    /\ Len(apiClient.done) < MaxApiCalls
    /\ \E apiType \in ApiTypes :
         apiClient' = [apiClient EXCEPT
                          !.stage = "primary",
                          !.apiType = apiType,
                          !.attempts = <<PrimaryUrl(apiType)>>]
    /\ ApiFrame

\* Lines 189-194: the primary answered with an OK status.
PrimaryOk ==
    /\ pc = "procs"
    /\ apiClient.stage = "primary"
    /\ \E outcome \in {o \in FetchOutcomes : FetchOk(o)} :
         apiClient' = [apiClient EXCEPT
             !.stage = "idle",
             !.attempts = <<>>,
             !.done = Append(@, [apiType |-> apiClient.apiType,
                                 attempts |-> apiClient.attempts,
                                 primary |-> outcome,
                                 fallback |-> "",
                                 result |-> BodyResult(outcome, "primary")])]
    /\ ApiFrame

\* Lines 189-208: the primary attempt threw; the fallback URL is fetched.
PrimaryFails ==
    /\ pc = "procs"
    /\ apiClient.stage = "primary"
    /\ \E outcome \in {o \in FetchOutcomes : ~FetchOk(o)} :
         apiClient' = [apiClient EXCEPT
             !.stage = "fallback",
             !.primary = outcome,
             !.attempts = Append(@, FallbackUrl(apiClient.apiType))]
    /\ ApiFrame

\* Lines 210-215: the fallback answered with an OK status.
FallbackOk ==
    /\ pc = "procs"
    /\ apiClient.stage = "fallback"
    /\ \E outcome \in {o \in FetchOutcomes : FetchOk(o)} :
         apiClient' = [apiClient EXCEPT
             !.stage = "idle",
             !.attempts = <<>>,
             !.primary = "",
             !.done = Append(@, [apiType |-> apiClient.apiType,
                                 attempts |-> apiClient.attempts,
                                 primary |-> apiClient.primary,
                                 fallback |-> outcome,
                                 result |-> BodyResult(outcome, "fallback")])]
    /\ ApiFrame

\* Lines 216-219: the fallback attempt threw as well.
FallbackFails ==
    /\ pc = "procs"
    /\ apiClient.stage = "fallback"
    /\ \E outcome \in {o \in FetchOutcomes : ~FetchOk(o)} :
         apiClient' = [apiClient EXCEPT
             !.stage = "idle",
             !.attempts = <<>>,
             !.primary = "",
             !.done = Append(@, [apiType |-> apiClient.apiType,
                                 attempts |-> apiClient.attempts,
                                 primary |-> apiClient.primary,
                                 fallback |-> outcome,
                                 result |-> [kind |-> "thrown",
                                             error |-> "Failed to connect to both"]])]
    /\ ApiFrame

NextApi ==
    FetchWithFallback \/ PrimaryOk \/ PrimaryFails \/ FallbackOk \/ FallbackFails

SpecApi == InitProcs /\ [][NextApi]_vars

Failure(outcome) == outcome \in {"not ok", "network error", "timeout"}

\* C25: the primary URL is contacted first; the fallback only after the
\* primary failed by a network error, a timeout or a non-OK status; the
\* primary's response is returned whenever the primary did not fail so; and
\* the call throws only when both attempts failed, one attempt on each.
CE_C25_FallbackOrder ==
    \A k \in 1..Len(apiClient.done) :
        LET call == apiClient.done[k]
        IN  /\ call.attempts[1] = PrimaryUrl(call.apiType)
            /\ Len(call.attempts) > 1 =>
                  /\ Failure(call.primary)
                  /\ call.attempts = <<PrimaryUrl(call.apiType),
                                       FallbackUrl(call.apiType)>>
            /\ ~Failure(call.primary) =>
                  call.result = [kind |-> "returned", from |-> "primary"]
            /\ call.result.kind = "thrown" =>
                  /\ Failure(call.primary) /\ Failure(call.fallback)
                  /\ Len(call.attempts) = 2

----------------------------------------------------------------------------
(* getAccessToken and its module-level cache (satellite/route.ts:7-74).     *)
(* Date.now() is counted in ticks of TickMinutes; a token is named by the   *)
(* tick at which the token endpoint delivered it.  The credentials are      *)
(* configured.                                                              *)

TickMinutes == 5

\* expiresAt: Date.now() + 55 * 60 * 1000
CacheMinutes == 55

CacheTicks == CacheMinutes \div TickMinutes

TokenValid_IgnoresExpiry(cached, now) == cached.present

\* cachedToken && cachedToken.expiresAt > Date.now()
TokenValid(cached, now) == cached.present /\ cached.expiresAt > now

TokenFrame ==
    UNCHANGED <<water, page, vpdAnalysis, proxy, gee, apiClient, users, bridge,
                configCache, transmitter>>

\* Time passes, between calls or while the token request is in flight.
ClockAdvances ==
    /\ pc = "procs"
    /\ tokenCache.now < MaxTicks
    /\ tokenCache' = [tokenCache EXCEPT !.now = @ + 1]
    /\ TokenFrame

\* Lines 11-14: the cached token is returned.
GetAccessTokenFromCache ==
    /\ pc = "procs"
    /\ tokenCache.stage = "idle"
    /\ TokenValid(tokenCache.cachedToken, tokenCache.now)
    /\ tokenCache' = [tokenCache EXCEPT
                         !.last = [kind |-> "cache",
                                   token |-> tokenCache.cachedToken.token,
                                   at |-> tokenCache.now,
                                   requests |-> tokenCache.requests,
                                   before |-> tokenCache.cachedToken,
                                   after |-> tokenCache.cachedToken]]
    /\ TokenFrame

\* Lines 11-49: no valid cached token; the token endpoint is asked.
GetAccessTokenRequests ==
    /\ pc = "procs"
    /\ tokenCache.stage = "idle"
    /\ ~TokenValid(tokenCache.cachedToken, tokenCache.now)
    /\ tokenCache.requests < MaxTokenRequests
    /\ tokenCache' = [tokenCache EXCEPT
                         !.stage = "requesting",
                         !.requests = @ + 1,
                         !.last = [kind |-> "pending",
                                   at |-> tokenCache.now,
                                   before |-> tokenCache.cachedToken]]
    /\ TokenFrame

\* Lines 61-70: the endpoint delivered a token; it is cached and returned.
TokenGranted ==
    /\ pc = "procs"
    /\ tokenCache.stage = "requesting"
    /\ LET fresh == [present |-> TRUE, token |-> tokenCache.now,
                     expiresAt |-> tokenCache.now + CacheTicks]
       IN  tokenCache' = [tokenCache EXCEPT
                             !.stage = "idle",
                             !.cachedToken = fresh,
                             !.last = [kind |-> "endpoint",
                                       token |-> fresh.token,
                                       calledAt |-> tokenCache.last.at,
                                       at |-> tokenCache.now,
                                       requests |-> tokenCache.requests,
                                       before |-> tokenCache.last.before,
                                       after |-> fresh]]
    /\ TokenFrame

\* Lines 51-59, 71-74: the request failed; the error is thrown on.
TokenRequestFails ==
    /\ pc = "procs"
    /\ tokenCache.stage = "requesting"
    /\ tokenCache' = [tokenCache EXCEPT
                         !.stage = "idle",
                         !.last = [kind |-> "thrown",
                                   at |-> tokenCache.now,
                                   requests |-> tokenCache.requests,
                                   before |-> tokenCache.last.before,
                                   after |-> tokenCache.cachedToken]]
    /\ TokenFrame

NextToken ==
    \/ ClockAdvances \/ GetAccessTokenFromCache \/ GetAccessTokenRequests
    \/ TokenGranted \/ TokenRequestFails

SpecToken == InitProcs /\ [][NextToken]_vars

\* C26: a token returned from the cache was delivered less than 55 minutes
\* before, while its expiresAt was later than the current time; a token from
\* the endpoint is the one cached; a failed request leaves the cache as it
\* was.
Thm_C26_TokenCache ==
    LET last == tokenCache.last
    IN  /\ last.kind = "cache" =>
              /\ (last.at - last.token) * TickMinutes < CacheMinutes
              /\ last.before.expiresAt > last.at
              /\ last.after = last.before
        /\ last.kind = "endpoint" =>
              /\ ~(last.before.present /\ last.before.expiresAt > last.calledAt)
              /\ last.after = [present |-> TRUE, token |-> last.token,
                               expiresAt |-> last.at + CacheTicks]
        /\ last.kind = "thrown" => last.after = last.before

\* A token is taken from the cache on the last tick of its validity, after
\* an earlier request for it had failed.
Wit_C26_TokenCache ==
    /\ tokenCache.last.kind = "cache"
    /\ tokenCache.last.at - tokenCache.last.token = CacheTicks - 1
    /\ tokenCache.requests >= 2

----------------------------------------------------------------------------
(* createUser (lib/auth.ts:55-97) called by concurrent signups              *)
(* (auth/login/route.ts:85-104) on one users collection.  A step is what    *)
(* runs between two awaits; nothing in the repository puts a unique index   *)
(* on the collection.                                                       *)

\* Addresses as they are typed.
Emails == {"Ann@farm.io", "ann@farm.io", "bob@farm.io"}

\* String.prototype.toLowerCase on the addresses above.
ToLowerCase(email) == IF email = "Ann@farm.io" THEN "ann@farm.io" ELSE email

\* users.findOne({email}): is there a document with this email.
FindOne(collection, email) ==
    \E k \in 1..Len(collection) : collection[k].email = email

UsersFrame ==
    UNCHANGED <<water, page, vpdAnalysis, proxy, gee, apiClient, tokenCache,
                bridge, configCache, transmitter>>

\* Lines 62-69: findOne finds the address.
CreateUserAlreadyRegistered(c) ==
    /\ pc = "procs"
    /\ users.call[c].stage = "idle"
    /\ \E email \in Emails :
         /\ FindOne(users.collection, ToLowerCase(email))
         /\ users' = [users EXCEPT
                         ![ "call" ][c] = [stage |-> "returned",
                                           email |-> email,
                                           result |-> "Email already registered"]]
    /\ UsersFrame

\* Lines 62-72: findOne finds nothing; the password is being hashed.
CreateUserHashes(c) ==
    /\ pc = "procs"
    /\ users.call[c].stage = "idle"
    /\ \E email \in Emails :
         /\ ~FindOne(users.collection, ToLowerCase(email))
         /\ users' = [users EXCEPT
                         ![ "call" ][c] = [stage |-> "hashing",
                                           email |-> email,
                                           result |-> ""]]
    /\ UsersFrame

\* Lines 72-90: the hash is there; insertOne stores the user.
CreateUserInserts(c) ==
    /\ pc = "procs"
    /\ users.call[c].stage = "hashing"
    /\ users' = [users EXCEPT
                    !.collection =
                        Append(@, [email |-> ToLowerCase(users.call[c].email),
                                   by |-> c]),
                    ![ "call" ][c].stage = "returned",
                    ![ "call" ][c].result = "success"]
    /\ UsersFrame

\* Lines 91-94: the database threw.
CreateUserFails(c) ==
    /\ pc = "procs"
    /\ users.call[c].stage = "hashing"
    /\ users' = [users EXCEPT
                    ![ "call" ][c].stage = "returned",
                    ![ "call" ][c].result = "Failed to create user"]
    /\ UsersFrame

NextUsers ==
    \E c \in Requests :
        \/ CreateUserAlreadyRegistered(c)
        \/ CreateUserHashes(c)
        \/ CreateUserInserts(c)
        \/ CreateUserFails(c)

SpecUsers == InitProcs /\ [][NextUsers]_vars

\* C27: whatever the interleaving of createUser calls, the users collection
\* holds at most one user per lower-cased email.
CE_C27_OneUserPerEmail ==
    \A j, k \in 1..Len(users.collection) :
        users.collection[j].email = users.collection[k].email => j = k

----------------------------------------------------------------------------
(* The LoRa bridge: loop, isValidJSON and forwardToServer of                *)
(* arduino/lora_bridge.ino (lines 83-171) and of the station-mode sketch    *)
(* unnamed/part_001 (lines 74-241).  One step is one iteration of loop.     *)

Sketches == {"lora_bridge.ino", "part_001"}

\* What LoRa.parsePacket and the reads deliver in an iteration.
Packets == {"none", "not JSON", "JSON without id", "JSON with id"}

\* Return values of http.POST: an HTTPClient error, or the status code.
HttpCodes == {0 - 1, 100, 200, 404}

\* isValidJSON: deserializeJson succeeds and the document has the key "id".
isValidJSON(packet) == packet = "JSON with id"

\* forwardToServer of part_001, lines 226-230.
ForwardSucceeds_Station(httpCode) ==
    httpCode > 0 /\ httpCode >= 200 /\ httpCode < 300

\* forwardToServer of lora_bridge.ino, line 160.
ForwardSucceeds_AccessPoint(httpCode) == httpCode > 0 /\ httpCode < 300

forwardToServer(sketch, httpCode) ==
    IF sketch = "part_001" THEN ForwardSucceeds_Station(httpCode)
    ELSE ForwardSucceeds_AccessPoint(httpCode)

\* The counters after the iteration that handled `packet`.
Counted(sketch, b, packet, wifi, httpCode) ==
    IF packet = "none" THEN b
    ELSE LET received == [b EXCEPT !.packetsReceived = @ + 1]
         IN  IF ~isValidJSON(packet)
                 THEN [received EXCEPT !.packetsFailed = @ + 1]
             ELSE IF sketch = "part_001" /\ ~wifi
                 THEN [received EXCEPT !.packetsFailed = @ + 1]
             ELSE IF forwardToServer(sketch, httpCode)
                 THEN [received EXCEPT !.packetsForwarded = @ + 1]
             ELSE [received EXCEPT !.packetsFailed = @ + 1]

BridgeFrame ==
    UNCHANGED <<water, page, vpdAnalysis, proxy, gee, apiClient, tokenCache,
                users, configCache, transmitter>>

\* One iteration of loop() of a sketch.
BridgeLoop(sketch) ==
    /\ pc = "procs"
    /\ bridge[sketch].packetsReceived < MaxPackets
    /\ \E packet \in Packets, wifi \in BOOLEAN, httpCode \in HttpCodes :
         bridge' = [bridge EXCEPT
                       ![sketch] =
                           [Counted(sketch, @, packet, wifi, httpCode)
                               EXCEPT !.last = [packet |-> packet,
                                                wifi |-> wifi,
                                                httpCode |-> httpCode]]]
    /\ BridgeFrame

SpecBridge == InitProcs /\ [][\E sketch \in Sketches : BridgeLoop(sketch)]_vars

\* The iteration `after` counted its packet as forwarded.
CountedForwarded(before, after) ==
    after.packetsForwarded = before.packetsForwarded + 1

\* C28: after every iteration packetsReceived is packetsForwarded +
\* packetsFailed, and a packet is counted as forwarded only when it is JSON
\* with an "id" and the server answered with a 2xx code, as failed otherwise.
CE_C28_CountersAddUp ==
    [][\A sketch \in Sketches :
          LET before == bridge[sketch]
              after == bridge'[sketch]
          IN  /\ after.packetsReceived
                    = after.packetsForwarded + after.packetsFailed
              /\ after.packetsReceived > before.packetsReceived =>
                    (CountedForwarded(before, after)
                        <=> /\ after.last.packet = "JSON with id"
                            /\ after.last.httpCode >= 200
                            /\ after.last.httpCode < 300
                            /\ (sketch = "part_001" => after.last.wifi))]_vars

----------------------------------------------------------------------------
(* loadConfig and clearConfigCache (unnamed/part_006:1-34), called from up  *)
(* to two places at a time.  A config is its name; "" stands for the falsy  *)
(* values null and undefined.  `since` remembers the config of the first    *)
(* successful load after the last clearConfigCache.                         *)

\* Configs the server may answer with.
Configs == {"config A", "config B"}

\* The object built from the environment variables, lines 20-29.
EnvFallback == "env fallback"

CacheAfterFailure_StoresFallback(cached) == EnvFallback

\* cachedConfig after a fetch that failed or was not ok: not assigned.
CacheAfterFailure(cached) == cached

ConfigFrame ==
    UNCHANGED <<water, page, vpdAnalysis, proxy, gee, apiClient, tokenCache,
                users, bridge, transmitter>>

\* Lines 4-6: cachedConfig is truthy and is returned.
LoadConfigFromCache(c) ==
    /\ pc = "procs"
    /\ configCache.call[c].stage = "idle"
    /\ configCache.cachedConfig # ""
    /\ configCache' = [configCache EXCEPT
           ![ "call" ][c].last =
               [source |-> "cache",
                result |-> configCache.cachedConfig,
                cachedAtStart |-> configCache.cachedConfig,
                sinceAtStart |-> configCache.since,
                requested |-> FALSE,
                cachedAfter |-> configCache.cachedConfig]]
    /\ ConfigFrame

\* Lines 4-9: cachedConfig is falsy; /api/config is fetched.
LoadConfigFetches(c) ==
    /\ pc = "procs"
    /\ configCache.call[c].stage = "idle"
    /\ configCache.cachedConfig = ""
    /\ configCache.fetches < MaxConfigFetches
    /\ configCache' = [configCache EXCEPT
           !.fetches = @ + 1,
           ![ "call" ][c] = [stage |-> "fetching",
                             last |-> [source |-> "pending",
                                       cachedAtStart |-> configCache.cachedConfig,
                                       sinceAtStart |-> configCache.since]]]
    /\ ConfigFrame

\* Lines 10-14: the response is ok; data.config is cached and returned.
\* data.config is a config, or is missing from the body.
ConfigFetched(c) ==
    /\ pc = "procs"
    /\ configCache.call[c].stage = "fetching"
    /\ \E config \in Configs \cup {""} :
         configCache' = [configCache EXCEPT
             !.cachedConfig = config,
             !.since = IF @ = "" THEN config ELSE @,
             ![ "call" ][c] =
                 [stage |-> "idle",
                  last |-> [source |-> IF config = "" THEN "undefined" ELSE "server",
                            result |-> config,
                            cachedAtStart |-> configCache.call[c].last.cachedAtStart,
                            sinceAtStart |-> configCache.call[c].last.sinceAtStart,
                            requested |-> TRUE,
                            cachedAfter |-> config]]]
    /\ ConfigFrame

\* Lines 10, 15-29: the response is not ok, or fetch or json() threw; the
\* environment fallback is returned.
ConfigFetchFails(c) ==
    /\ pc = "procs"
    /\ configCache.call[c].stage = "fetching"
    /\ LET after == CacheAfterFailure(configCache.cachedConfig)
       IN  configCache' = [configCache EXCEPT
               !.cachedConfig = after,
               ![ "call" ][c] =
                   [stage |-> "idle",
                    last |-> [source |-> "fallback",
                              result |-> EnvFallback,
                              cachedAtStart |-> configCache.call[c].last.cachedAtStart,
                              sinceAtStart |-> configCache.call[c].last.sinceAtStart,
                              requested |-> TRUE,
                              cachedAfter |-> after]]]
    /\ ConfigFrame

\* Lines 32-34.
clearConfigCache ==
    /\ pc = "procs"
    /\ configCache.cachedConfig # "" \/ configCache.since # ""
    /\ configCache' = [configCache EXCEPT !.cachedConfig = "", !.since = ""]
    /\ ConfigFrame

NextConfig ==
    \/ \E c \in Requests :
          \/ LoadConfigFromCache(c)
          \/ LoadConfigFetches(c)
          \/ ConfigFetched(c)
          \/ ConfigFetchFails(c)
    \/ clearConfigCache

SpecConfig == InitProcs /\ [][NextConfig]_vars

Returned(c) ==
    configCache.call[c].last.source \in {"cache", "server", "undefined", "fallback"}

\* C29 as stated: a call made after a successful loadConfig, and before
\* clearConfigCache, returns that same config from the cache without a
\* request; the environment fallback is never in the cache.
CE_C29_SameConfigUntilCleared ==
    /\ configCache.cachedConfig # EnvFallback
    /\ \A c \in Requests :
          LET last == configCache.call[c].last
          IN  (Returned(c) /\ last.sinceAtStart # "") =>
                  /\ last.source = "cache"
                  /\ last.result = last.sinceAtStart
                  /\ ~last.requested

\* C29, amended: a call made while cachedConfig is set returns that
\* cachedConfig without a request, a call made while it is not set issues a
\* request; the environment fallback is never in the cache and a failed fetch
\* leaves the cache to the next call as it finds it.
Thm_C29_CachedWhileSet ==
    /\ configCache.cachedConfig # EnvFallback
    /\ \A c \in Requests :
          LET last == configCache.call[c].last
          IN  Returned(c) =>
                  /\ last.cachedAtStart # "" =>
                        /\ last.source = "cache"
                        /\ last.result = last.cachedAtStart
                        /\ ~last.requested
                  /\ last.cachedAtStart = "" =>
                        /\ last.source # "cache"
                        /\ last.requested
                  /\ last.source = "fallback" =>
                        /\ last.result = EnvFallback
                        /\ last.cachedAfter # EnvFallback

\* One call got the fallback and the other, started after a first success,
\* got from the cache a config other than that of the first success.
Wit_C29_CachedWhileSet ==
    /\ configCache.call[1].last.source = "fallback"
    /\ configCache.call[2].last.source = "cache"
    /\ configCache.call[2].last.sinceAtStart # ""
    /\ configCache.call[2].last.result # configCache.call[2].last.sinceAtStart

----------------------------------------------------------------------------
(* The LoRa transmitter: loop of esp8266/lora_transmitter/                  *)
(* lora_transmitter.ino (lines 81-161).  One step is one transmission       *)
(* cycle.  DHT readings are in hundredths, the values sent in tenths.       *)

MAX_RETRY_ATTEMPTS == 3
SOIL_DRY_VALUE == 1023
SOIL_WET_VALUE == 300

\* What dht.readTemperature / dht.readHumidity return when the read fails.
NaN == 0 - 99999

\* The value sent for a reading that could not be taken, in tenths.
NoReading == (0 - 999) * 10

\* One attempt: <<temperature, humidity>>.
DhtReadings == {NaN, 0 - 125} \X {NaN, 6004}

\* analogRead(A0) of the cycle's last attempt.
AdcValues == {0, 650, 1024}

isnan(x) == x = NaN

\* The quotient of C: rounded towards zero.
CDiv(a, b) ==
    LET q == (IF a < 0 THEN 0 - a ELSE a) \div (IF b < 0 THEN 0 - b ELSE b)
    IN  IF (a < 0) = (b < 0) THEN q ELSE 0 - q

\* Arduino map(x, in_min, in_max, out_min, out_max).
map(x, in_min, in_max, out_min, out_max) ==
    CDiv((x - in_min) * (out_max - out_min), in_max - in_min) + out_min

constrain_Off(x, low, high) == x

constrain(x, low, high) == IF x < low THEN low ELSE IF x > high THEN high ELSE x

\* round(value * 10) / 10.0 of a value in hundredths, in tenths.
RoundToTenth(x) ==
    IF x >= 0 THEN (x + 5) \div 10 ELSE 0 - ((5 - x) \div 10)

Valid(reading) == ~isnan(reading[1]) /\ ~isnan(reading[2])

\* The retry loop, lines 94-108: the number of attempts made.
Attempts(readings) ==
    IF \E k \in 1..MAX_RETRY_ATTEMPTS : Valid(readings[k])
        THEN CHOOSE k \in 1..MAX_RETRY_ATTEMPTS :
                 /\ Valid(readings[k])
                 /\ \A j \in 1..(k - 1) : ~Valid(readings[j])
        ELSE MAX_RETRY_ATTEMPTS

TransmitterFrame ==
    UNCHANGED <<water, page, vpdAnalysis, proxy, gee, apiClient, tokenCache,
                users, bridge, configCache>>

\* One transmission cycle: lines 85-157.
TransmitCycle ==
    /\ pc = "procs"
    /\ transmitter.cycles < MaxCycles
    /\ \E readings \in [1..MAX_RETRY_ATTEMPTS -> DhtReadings],
          soilMoistureRaw \in AdcValues,
          packetSent \in BOOLEAN :
         LET reads == Attempts(readings)
             sensorReadSuccess == Valid(readings[reads])
             soilMoisturePct ==
                 constrain(map(soilMoistureRaw, SOIL_DRY_VALUE, SOIL_WET_VALUE,
                               0, 100), 0, 100)
             failed == transmitter.failedReadings
                          + (IF sensorReadSuccess THEN 0 ELSE 1)
         IN  transmitter' =
                 [transmissionCount |->
                      transmitter.transmissionCount + (IF packetSent THEN 1 ELSE 0),
                  failedReadings |-> failed,
                  cycles |-> transmitter.cycles + 1,
                  last |->
                      [reads |-> reads,
                       readings |-> readings,
                       sensorReadSuccess |-> sensorReadSuccess,
                       soilMoistureRaw |-> soilMoistureRaw,
                       soil_moisture |-> soilMoisturePct,
                       temperature |->
                           IF sensorReadSuccess
                               THEN RoundToTenth(readings[reads][1])
                               ELSE NoReading,
                       humidity |->
                           IF sensorReadSuccess
                               THEN RoundToTenth(readings[reads][2])
                               ELSE NoReading,
                       transmission_count |-> transmitter.transmissionCount,
                       failed_readings |-> failed,
                       packetSent |-> packetSent]]
    /\ TransmitterFrame

SpecTransmitter == InitProcs /\ [][TransmitCycle]_vars

AllAttemptsFail(readings) ==
    \A k \in 1..MAX_RETRY_ATTEMPTS :
        readings[k][1] = NaN \/ readings[k][2] = NaN

\* C30: a cycle reads the DHT at most MAX_RETRY_ATTEMPTS times and stops at
\* the first valid reading; failedReadings grows by exactly 1 in a cycle
\* whose attempts all fail, and temperature and humidity are then sent as
\* -999; transmissionCount grows by exactly 1 only when the packet was sent;
\* and the soil_moisture sent is within 0..100.
Thm_C30_TransmissionCycle ==
    [][LET cycle == transmitter'.last
       IN  /\ cycle.reads >= 1 /\ cycle.reads <= 3
           /\ \A k \in 1..(cycle.reads - 1) :
                 cycle.readings[k][1] = NaN \/ cycle.readings[k][2] = NaN
           /\ cycle.reads < 3 =>
                 /\ cycle.readings[cycle.reads][1] # NaN
                 /\ cycle.readings[cycle.reads][2] # NaN
           /\ transmitter'.failedReadings = transmitter.failedReadings
                 + (IF AllAttemptsFail(cycle.readings) THEN 1 ELSE 0)
           /\ AllAttemptsFail(cycle.readings) =>
                 /\ cycle.temperature = (0 - 999) * 10
                 /\ cycle.humidity = (0 - 999) * 10
           /\ transmitter'.transmissionCount = transmitter.transmissionCount
                 + (IF cycle.packetSent THEN 1 ELSE 0)
           /\ cycle.soil_moisture >= 0 /\ cycle.soil_moisture <= 100]_vars

\* A cycle in which every attempt failed and the packet was sent, with the
\* soil wetter than the wet calibration value; the cycle before it was not
\* sent.
Wit_C30_TransmissionCycle ==
    /\ transmitter.cycles = 2
    /\ transmitter.last.reads = MAX_RETRY_ATTEMPTS
    /\ ~transmitter.last.sensorReadSuccess
    /\ transmitter.last.temperature = NoReading
    /\ transmitter.last.packetSent
    /\ transmitter.last.soilMoistureRaw < SOIL_WET_VALUE
    /\ transmitter.last.soil_moisture = 100
    /\ transmitter.failedReadings = 1
    /\ transmitter.transmissionCount = 1

====
